---- MODULE Spec2Model ----
(***************************************************************************)
(* Model of AIReviewMate: on the server the review endpoint                *)
(* (server/src/routes/review.js), the AI review client                     *)
(* (server/src/services/gemini.js) and the GitHub routes                   *)
(* (server/src/routes/github.js); in the browser the review flow of the    *)
(* Demo component (client/src/components/Demo.tsx).                        *)
(*                                                                         *)
(* JavaScript values are records [t, k, n]:                                *)
(*   t  the kind of value ("undefined", "null", "boolean", "number",       *)
(*      "string", "array", "object");                                      *)
(*   k  number: "fin" | "nan" | "pinf" | "ninf";                           *)
(*      string: "blank" (empty or whitespace only) | "text";               *)
(*      object: what its "length" property holds: "none", "fin" (a finite  *)
(*      number) or "text" (a non-numeric string);                          *)
(*   n  number: the value in halves (n = 2 * value); string, array: the    *)
(*      length; boolean: 1 for true; object: its "length" property in      *)
(*      halves when k = "fin".                                             *)
(***************************************************************************)
EXTENDS Integers, Sequences, FiniteSets, TLC

VARIABLES
  apiKey,       \* process.env.GEMINI_API_KEY
  genAI,        \* TRUE when gemini.js built its client at module load
  pc,           \* where the request is: "idle", "awaiting", "done"
  req,          \* the body of the POST /api/review request
  reviewCalls,  \* how often the route called reviewCode
  modelCalls,   \* how often reviewCode called model.generateContent
  reply,        \* what the provider answered
  outcome,      \* what reviewCode returned or threw
  response,     \* what the route sent
  ghEnv,        \* GITHUB_CLIENT_ID, GITHUB_CLIENT_SECRET, GITHUB_REDIRECT_URI, CLIENT_URL
  ghPc,         \* where the github.js request is: "idle", the pending call, "done"
  ghReq,        \* the request a github.js handler received
  ghLocal,      \* the handler's locals: branchName, mainBranchSHA, fileSHA
  ghCalls,      \* the remote calls the handler issued, in order
  ghReplies,    \* what the remote answered to them, in order
  ghSent,       \* the responses the handler sent, in order
  served,       \* the requests the server received before the one followed now
  demo,         \* the React state of the Demo component
  rendered,     \* the state the handlers of the last render closed over
  isRequestInProgressRef,  \* isRequestInProgressRef.current
  progressIntervals,       \* the progress intervals that are running
  pending,      \* the review requests of the component that have not settled
  timers        \* the completion timers that have not fired

reviewVars == <<apiKey, genAI, pc, req, reviewCalls, modelCalls, reply, outcome, response>>

ghVars == <<ghEnv, ghPc, ghReq, ghLocal, ghCalls, ghReplies, ghSent>>

demoVars == <<demo, rendered, isRequestInProgressRef, progressIntervals, pending, timers>>

vars == <<apiKey, genAI, pc, req, reviewCalls, modelCalls, reply, outcome, response,
          ghEnv, ghPc, ghReq, ghLocal, ghCalls, ghReplies, ghSent, served,
          demo, rendered, isRequestInProgressRef, progressIntervals, pending, timers>>

(***************************** bounds ***************************************)
\* longest list the provider's JSON carries in a list field
MaxList == 2
\* most marker substrings one provider error message carries
MaxTokens == 2
\* longest raw model text, in tokens
MaxTextLen == 4
\* most repositories one payload of the repositories endpoint lists
MaxRepos == 2
\* latest instant Date.now() returns, in ticks
MaxClock == 2
\* most inbound requests the server is followed through, one after another
MaxRequests == 2
\* most review requests of the component that are followed while unsettled
MaxInFlight == 2

(*************************** JavaScript values ******************************)
Undef == [t |-> "undefined", k |-> "", n |-> 0]
Null == [t |-> "null", k |-> "", n |-> 0]
Bool(b) == [t |-> "boolean", k |-> "", n |-> IF b THEN 1 ELSE 0]
\* a finite number given in halves
Num(h) == [t |-> "number", k |-> "fin", n |-> h]
\* a finite number given as an integer
Int2(i) == Num(2 * i)
NaN == [t |-> "number", k |-> "nan", n |-> 0]
PInf == [t |-> "number", k |-> "pinf", n |-> 0]
NInf == [t |-> "number", k |-> "ninf", n |-> 0]
Str(len, blank) == [t |-> "string", k |-> IF blank THEN "blank" ELSE "text", n |-> len]
List(len) == [t |-> "array", k |-> "", n |-> len]
Obj(lk, h) == [t |-> "object", k |-> lk, n |-> h]

\* typeof v
TypeOf(v) ==
  IF v.t \in {"array", "object", "null"} THEN "object" ELSE v.t

\* Array.isArray(v)
IsArray(v) == v.t = "array"

\* ToBoolean(v): what !v, v || d and v ? a : b test
Truthy(v) ==
  CASE v.t \in {"undefined", "null"} -> FALSE
    [] v.t = "boolean" -> v.n = 1
    [] v.t = "number" -> ~(v.k = "nan" \/ (v.k = "fin" /\ v.n = 0))
    [] v.t = "string" -> v.n > 0
    [] OTHER -> TRUE

\* v || d
OrElse(v, d) == IF Truthy(v) THEN v ELSE d

\* v?.length
LengthOf(v) ==
  CASE v.t \in {"string", "array"} -> Int2(v.n)
    [] v.t = "object" /\ v.k = "fin" -> Num(v.n)
    [] v.t = "object" /\ v.k = "text" -> Str(1, FALSE)
    [] OTHER -> Undef

\* ToNumber(v), as applied by the * operator
ToNumber(v) ==
  CASE v.t = "number" -> v
    [] v.t = "undefined" -> NaN
    [] v.t = "null" -> Int2(0)
    [] v.t = "boolean" -> Int2(v.n)
    [] v.t = "string" -> IF v.k = "blank" THEN Int2(0) ELSE NaN
    [] v.t = "array" -> IF v.n = 0 THEN Int2(0) ELSE NaN
    [] OTHER -> NaN

\* c * v for a positive integer literal c
Times(v, c) ==
  LET x == ToNumber(v) IN
  IF x.k = "fin" THEN Num(c * x.n) ELSE x

\* a + b on numbers
Plus(a, b) ==
  CASE a.k = "nan" \/ b.k = "nan" -> NaN
    [] a.k = "fin" /\ b.k = "fin" -> Num(a.n + b.n)
    [] a.k = "fin" -> b
    [] b.k = "fin" -> a
    [] a.k = b.k -> a
    [] OTHER -> NaN

\* Math.min(a, b) on numbers
MathMin(a, b) ==
  CASE a.k = "nan" \/ b.k = "nan" -> NaN
    [] a.k = "ninf" \/ b.k = "ninf" -> NInf
    [] a.k = "pinf" -> b
    [] b.k = "pinf" -> a
    [] OTHER -> IF a.n <= b.n THEN a ELSE b

\* Math.max(a, b) on numbers
MathMax(a, b) ==
  CASE a.k = "nan" \/ b.k = "nan" -> NaN
    [] a.k = "pinf" \/ b.k = "pinf" -> PInf
    [] a.k = "ninf" -> b
    [] b.k = "ninf" -> a
    [] OTHER -> IF a.n >= b.n THEN a ELSE b

\* Math.round(v): the nearest integer, a tie going up
MathRound(v) ==
  IF v.k = "fin" THEN Int2((v.n + 1) \div 2) ELSE v

\* what JSON.stringify writes for a value held in an object property
JsonStringify(v) ==
  IF v.t = "number" /\ v.k # "fin" THEN Null ELSE v

(****************************** messages ***********************************)
(* An error message is [id, of, has, retry]: id names the text, has is the *)
(* set of marker substrings the text contains, retry the number N of a     *)
(* "retry in Ns" part (-1 when the text has none, or N is not a number),   *)
(* and of is the id of the message a wrapping message embeds.              *)
Msg(id, has) == [id |-> id, of |-> "", has |-> has, retry |-> -1]

\* the substrings reviewCode's catch block looks for in the provider's message
ProviderTokens ==
  {"API key", "GEMINI_API_KEY", "API_KEY_NOT_VALID",
   "quota", "429", "Too Many Requests", "RESOURCE_EXHAUSTED",
   "free_tier_requests", "FreeTier", "limit: 200",
   "rate limit", "RATE_LIMIT_EXCEEDED",
   "model", "MODEL_NOT_FOUND", "404 Not Found", "is not found"}

\* message.includes(tok); undefined?.includes(tok) is undefined, hence false
Includes(msg, tok) == tok \in msg.has

\* an error thrown without a message (error.message is undefined)
NoMessage == Msg("undefined", {})

CodeRequiredMsg == Msg("Code is required and cannot be empty", {})
LanguageRequiredMsg == Msg("Language is required", {})
CodeTooLongMsg == Msg("Code is too long (maximum 10,000 characters)", {})
InvalidStructureMsg == Msg("Invalid response structure from AI service", {})

\* 'API key not configured. Please set GEMINI_API_KEY in your .env file ...'
NotConfiguredMsg == Msg("API key not configured", {"API key", "GEMINI_API_KEY"})

\* 'Failed to parse AI response. Please ensure your code is valid and try again.'
ParseFailedMsg == Msg("Failed to parse AI response", {})

\* 'The Reaper could not be summoned... check your API key.'
CheckKeyMsg ==
  Msg("The Reaper could not be summoned, check your API key",
      {"Reaper could not be summoned", "API key"})

\* 'The Reaper has reached its daily quota limit.' and the wait text
DailyQuotaMsg(retrySeconds) ==
  [id |-> "The Reaper has reached its daily quota limit", of |-> "",
   has |-> {"daily quota", "quota"},
   retry |-> IF retrySeconds > 0 THEN retrySeconds ELSE -1]

\* 'The Reaper is overwhelmed.' and the wait text
OverwhelmedMsg(retrySeconds) ==
  [id |-> "The Reaper is overwhelmed", of |-> "",
   has |-> {"overwhelmed"},
   retry |-> IF retrySeconds > 0 THEN retrySeconds ELSE -1]

\* 'The Gemini model "<name>" is not available for your API key. ...'
ModelUnavailableMsg == Msg("The Gemini model is not available", {"model", "API key"})

\* `The Reaper could not be summoned: ${error.message || 'Unknown error'}`
WrappedMsg(msg) ==
  [id |-> "The Reaper could not be summoned: ", of |-> msg.id,
   has |-> msg.has \cup {"Reaper could not be summoned"}, retry |-> msg.retry]

(************************* services/gemini.js *******************************)
\* process.env.GEMINI_API_KEY: unset, "", whitespace, the placeholder, a key
ApiKeys == {"unset", "empty", "blank", "placeholder", "valid"}

\* !apiKey
KeyFalsy(key) == key \in {"unset", "empty"}

\* module load: genAI = apiKey && apiKey !== placeholder ? new ... : null
MakeGenAI(key) == ~KeyFalsy(key) /\ key # "placeholder"

\* variant: the guard without the trim() test
KeyRejectedNoTrim(key, ai) ==
  KeyFalsy(key) \/ key = "placeholder" \/ ~ai

\* the guard that opens reviewCode
KeyRejected(key, ai) ==
  KeyFalsy(key) \/ key = "placeholder" \/ key \in {"empty", "blank"} \/ ~ai

NoResult == [errors |-> Undef, warnings |-> Undef, suggestions |-> Undef,
             changes |-> Undef, updatedCode |-> Undef, curseLevel |-> Undef,
             verdict |-> Undef]

\* 'The code has been analyzed by The Code Reaper.'
PlaceholderVerdict == [t |-> "string", k |-> "placeholder", n |-> 46]

\* the object of the parse catch block, built for the log only
FallbackResponse ==
  [NoResult EXCEPT !.errors = List(0), !.warnings = List(1),
                   !.suggestions = List(0), !.verdict = Str(52, FALSE),
                   !.curseLevel = Int2(50)]

\* min(100, errorCount * 30 + warningCount * 10)
CurseFromCounts(errorCount, warningCount) ==
  MathMin(Int2(100), Plus(Times(errorCount, 30), Times(warningCount, 10)))

\* "Validate response structure": x = x || [] for the three lists
DefaultLists(p) ==
  [p EXCEPT !.errors = OrElse(p.errors, List(0)),
            !.warnings = OrElse(p.warnings, List(0)),
            !.suggestions = OrElse(p.suggestions, List(0))]

\* variant: changes defaults with || like the other lists
DefaultNewFieldsOr(p) ==
  [p EXCEPT !.updatedCode = OrElse(p.updatedCode, Null),
            !.changes = OrElse(p.changes, List(0))]

\* "Set defaults for new fields"
DefaultNewFields(p) ==
  [p EXCEPT !.updatedCode = OrElse(p.updatedCode, Null),
            !.changes = IF IsArray(p.changes) THEN p.changes ELSE List(0)]

\* the curse level derived when the provider gave no number
DeriveCurseLevel(p) ==
  IF TypeOf(p.curseLevel) # "number"
  THEN [p EXCEPT !.curseLevel =
          CurseFromCounts(OrElse(LengthOf(p.errors), Int2(0)),
                          OrElse(LengthOf(p.warnings), Int2(0)))]
  ELSE p

\* variant: the default is the verdict text of the parse fallback
DefaultVerdictOtherText(p) ==
  IF ~Truthy(p.verdict) \/ TypeOf(p.verdict) # "string"
  THEN [p EXCEPT !.verdict = Str(52, FALSE)]
  ELSE p

\* the placeholder for a verdict that is missing, empty or not a string
DefaultVerdict(p) ==
  IF ~Truthy(p.verdict) \/ TypeOf(p.verdict) # "string"
  THEN [p EXCEPT !.verdict = PlaceholderVerdict]
  ELSE p

\* "Ensure arrays are arrays"
EnsureArrays(p) ==
  [p EXCEPT !.errors = IF IsArray(p.errors) THEN p.errors ELSE List(0),
            !.warnings = IF IsArray(p.warnings) THEN p.warnings ELSE List(0),
            !.suggestions = IF IsArray(p.suggestions) THEN p.suggestions ELSE List(0)]

\* "Clamp curseLevel between 0 and 100"
ClampCurseLevel(p) ==
  [p EXCEPT !.curseLevel =
     MathMax(Int2(0), MathMin(Int2(100), MathRound(p.curseLevel)))]

\* reviewCode, from "Validate response structure" to the return
PostProcess(parsed) ==
  ClampCurseLevel(EnsureArrays(DefaultVerdict(DeriveCurseLevel(
    DefaultNewFields(DefaultLists(parsed))))))

\* the outer catch block of reviewCode: the error it throws for the one caught
MapProviderError(msg) ==
  IF Includes(msg, "API key") \/ Includes(msg, "GEMINI_API_KEY")
     \/ Includes(msg, "API_KEY_NOT_VALID")
  THEN CheckKeyMsg
  ELSE IF Includes(msg, "quota") \/ Includes(msg, "429")
          \/ Includes(msg, "Too Many Requests") \/ Includes(msg, "RESOURCE_EXHAUSTED")
  THEN IF Includes(msg, "free_tier_requests") \/ Includes(msg, "FreeTier")
          \/ Includes(msg, "limit: 200")
       THEN DailyQuotaMsg(msg.retry)
       ELSE OverwhelmedMsg(msg.retry)
  ELSE IF Includes(msg, "rate limit") \/ Includes(msg, "RATE_LIMIT_EXCEEDED")
  THEN OverwhelmedMsg(-1)
  ELSE IF Includes(msg, "model") \/ Includes(msg, "MODEL_NOT_FOUND")
          \/ Includes(msg, "404 Not Found") \/ Includes(msg, "is not found")
  THEN ModelUnavailableMsg
  ELSE WrappedMsg(msg)

(* The model's raw text is a sequence of tokens: "F" a ``` fence, "j" the   *)
(* word json, "s" white space, "{" and "}", "m" a well-formed list of      *)
(* members ("key": value, ...), "x" any other characters.                  *)
TextTokens == {"F", "j", "s", "{", "}", "m", "x"}

MinOf(S) == CHOOSE i \in S : \A j \in S : i <= j
MaxOf(S) == CHOOSE i \in S : \A j \in S : i >= j

\* the first index from i on that holds no white space (Len(s) + 1 if none)
SkipSpace(s, i) == MinOf({k \in i..(Len(s) + 1) : k > Len(s) \/ s[k] # "s"})

\* text.trim()
Trim(s) ==
  LET keep == {i \in 1..Len(s) : s[i] # "s"}
  IN IF keep = {} THEN <<>> ELSE SubSeq(s, MinOf(keep), MaxOf(keep))

\* where the group of /```(?:json)?\s*(\{[\s\S]*\})\s*```/ opens for a fence at i
BlockOpen(s, i) ==
  SkipSpace(s, IF i + 1 <= Len(s) /\ s[i + 1] = "j" THEN i + 2 ELSE i + 1)

\* where the group can close: a "}" followed by white space and a fence
BlockCloses(s, i) ==
  {q \in (BlockOpen(s, i) + 1)..Len(s) :
     /\ s[q] = "}"
     /\ SkipSpace(s, q + 1) <= Len(s)
     /\ s[SkipSpace(s, q + 1)] = "F"}

\* the fences at which the pattern matches
BlockStarts(s) ==
  {i \in 1..Len(s) :
     /\ s[i] = "F"
     /\ BlockOpen(s, i) <= Len(s)
     /\ s[BlockOpen(s, i)] = "{"
     /\ BlockCloses(s, i) # {}}

\* s.replace(/^[^{]*/, '')
StripLeading(s) ==
  LET opens == {i \in 1..Len(s) : s[i] = "{"}
  IN IF opens = {} THEN <<>> ELSE SubSeq(s, MinOf(opens), Len(s))

\* s.replace(/[^}]*$/, '')
StripTrailing(s) ==
  LET closes == {i \in 1..Len(s) : s[i] = "}"}
  IN IF closes = {} THEN <<>> ELSE SubSeq(s, 1, MaxOf(closes))

\* s.match(/\{[\s\S]*\}/): the span from the first "{" to the last "}" after it
ObjectSpan(s) ==
  LET opens == {i \in 1..Len(s) : s[i] = "{"}
      closes == IF opens = {} THEN {}
                ELSE {i \in (MinOf(opens) + 1)..Len(s) : s[i] = "}"}
  IN IF closes = {} THEN [ok |-> FALSE, text |-> <<>>]
     ELSE [ok |-> TRUE, text |-> SubSeq(s, MinOf(opens), MaxOf(closes))]

\* the text handed to JSON.parse; ok is FALSE when 'No JSON object found'
ExtractJson(text) ==
  LET cleaned == Trim(text)
      starts == BlockStarts(cleaned)
      stripped == StripTrailing(StripLeading(cleaned))
  IN IF starts # {}
     THEN [ok |-> TRUE,
           text |-> SubSeq(cleaned, BlockOpen(cleaned, MinOf(starts)),
                           MaxOf(BlockCloses(cleaned, MinOf(starts))))]
     ELSE IF Len(stripped) > 0 /\ stripped[1] = "{"
     THEN [ok |-> TRUE, text |-> stripped]
     ELSE ObjectSpan(stripped)

NotSpace(tok) == tok # "s"

\* JSON.parse(s) returns: s is one object, white space between its tokens
JsonParses(s) == SelectSeq(s, NotSpace) \in {<<"{", "}">>, <<"{", "m", "}">>}

\* the inner try block of reviewCode completes without throwing
ParsesModelText(text) ==
  ExtractJson(text).ok /\ JsonParses(ExtractJson(text).text)

(*************************** routes/review.js *******************************)
\* the longest code the route accepts
MaxCodeLength == 10000

NoMsg == Msg("", {})
NoResponse == [status |-> 0, error |-> NoMsg, result |-> NoResult]

\* res.status(status).json({error: msg})
ErrorResponse(status, msg) == [status |-> status, error |-> msg, result |-> NoResult]

\* res.json(result): status 200, the result serialised as JSON
JsonResponse(result) ==
  [status |-> 200, error |-> NoMsg,
   result |-> [f \in DOMAIN result |-> JsonStringify(result[f])]]

\* variant: the length check is left out
ValidationErrorNoLength(code, language) ==
  IF ~Truthy(code) \/ TypeOf(code) # "string" \/ code.k = "blank"
  THEN CodeRequiredMsg
  ELSE IF ~Truthy(language) \/ TypeOf(language) # "string"
  THEN LanguageRequiredMsg
  ELSE NoMsg

\* variant: the language is checked before the code
ValidationErrorLanguageFirst(code, language) ==
  IF ~Truthy(language) \/ TypeOf(language) # "string"
  THEN LanguageRequiredMsg
  ELSE IF ~Truthy(code) \/ TypeOf(code) # "string" \/ code.k = "blank"
  THEN CodeRequiredMsg
  ELSE IF code.n > MaxCodeLength
  THEN CodeTooLongMsg
  ELSE NoMsg

\* variant: the length check rejects the limit itself
ValidationErrorOffByOne(code, language) ==
  IF ~Truthy(code) \/ TypeOf(code) # "string" \/ code.k = "blank"
  THEN CodeRequiredMsg
  ELSE IF ~Truthy(language) \/ TypeOf(language) # "string"
  THEN LanguageRequiredMsg
  ELSE IF code.n >= MaxCodeLength
  THEN CodeTooLongMsg
  ELSE NoMsg

\* the three validation checks; NoMsg when the request passes
ValidationError(code, language) ==
  IF ~Truthy(code) \/ TypeOf(code) # "string" \/ code.k = "blank"
  THEN CodeRequiredMsg
  ELSE IF ~Truthy(language) \/ TypeOf(language) # "string"
  THEN LanguageRequiredMsg
  ELSE IF code.n > MaxCodeLength
  THEN CodeTooLongMsg
  ELSE NoMsg

\* "Ensure all required fields exist"
RouteNormalize(result) ==
  LET r1 == [result EXCEPT
               !.errors = IF IsArray(result.errors) THEN result.errors ELSE List(0),
               !.warnings = IF IsArray(result.warnings) THEN result.warnings ELSE List(0),
               !.suggestions = IF IsArray(result.suggestions) THEN result.suggestions ELSE List(0)]
      r2 == IF TypeOf(r1.curseLevel) # "number"
            THEN [r1 EXCEPT !.curseLevel =
                    CurseFromCounts(LengthOf(r1.errors), LengthOf(r1.warnings))]
            ELSE r1
  IN IF ~Truthy(r2.verdict) \/ TypeOf(r2.verdict) # "string"
     THEN [r2 EXCEPT !.verdict = PlaceholderVerdict]
     ELSE r2

\* variant: the 429 test without 'overwhelmed'
ErrorStatusNoOverwhelmed(msg) ==
  IF Includes(msg, "API key") \/ Includes(msg, "Reaper could not be summoned")
  THEN 500
  ELSE IF Includes(msg, "quota") \/ Includes(msg, "rate limit")
          \/ Includes(msg, "daily quota")
  THEN 429
  ELSE 500

\* the status the route's catch block answers with
ErrorStatus(msg) ==
  IF Includes(msg, "API key") \/ Includes(msg, "Reaper could not be summoned")
  THEN 500
  ELSE IF Includes(msg, "quota") \/ Includes(msg, "rate limit")
          \/ Includes(msg, "overwhelmed") \/ Includes(msg, "daily quota")
  THEN 429
  ELSE 500

\* the route's catch block
CatchResponse(msg) == ErrorResponse(ErrorStatus(msg), msg)

\* the route from a returned result on; isObject: result && typeof result === 'object'
RouteRespond(result, isObject) ==
  IF ~isObject
  THEN CatchResponse(InvalidStructureMsg)
  ELSE JsonResponse(RouteNormalize(result))

(****************************** inputs **************************************)
CodeLengths == {0, 1, MaxCodeLength - 1, MaxCodeLength, MaxCodeLength + 1}

Codes ==
  {Undef, Null, Int2(0), Int2(5), Bool(TRUE), List(0), Obj("none", 0)}
  \cup {Str(n, b) : n \in CodeLengths \ {0}, b \in BOOLEAN}
  \cup {Str(0, TRUE)}

Languages == {Undef, Null, Str(0, TRUE), Str(6, FALSE), Int2(1), List(1)}

\* the messages of the errors the provider call raises
ProviderMessages ==
  {NoMessage}
  \cup {[id |-> "provider", of |-> "", has |-> h, retry |-> r] :
          h \in {S \in SUBSET ProviderTokens : Cardinality(S) <= MaxTokens},
          r \in {-1, 0, 7}}

\* what the model's JSON can hold in errors and in warnings
ListFieldValues ==
  {Undef, Str(3, FALSE), Obj("fin", 3), Obj("text", 0)}
  \cup {List(n) : n \in 0..MaxList}

CurseLevelValues ==
  {Undef, Str(2, FALSE), Int2(-5), Num(-1), Int2(0), Num(85), Int2(100),
   Num(201), Int2(250), PInf}

Payloads ==
  [errors : ListFieldValues, warnings : ListFieldValues,
   suggestions : {Undef, List(1), Str(3, FALSE)},
   changes : {Undef, List(1), Str(3, FALSE)},
   updatedCode : {Undef, Str(5, FALSE)},
   curseLevel : CurseLevelValues,
   verdict : {Undef, Str(0, TRUE), Str(9, FALSE), Int2(3)}]

\* a complete answer, as the prompt asks for it
WellFormedPayload ==
  [errors |-> List(1), warnings |-> List(1), suggestions |-> List(1),
   changes |-> List(1), updatedCode |-> Str(5, FALSE), curseLevel |-> Int2(40),
   verdict |-> Str(9, FALSE)]

\* the object a text parses to: "{}" holds no member
PayloadsOf(text) ==
  IF ~ParsesModelText(text) \/ "m" \notin {text[i] : i \in 1..Len(text)}
  THEN {NoResult}
  ELSE IF text = <<"{", "m", "}">> THEN Payloads ELSE {WellFormedPayload}

NoReply == [kind |-> "none", msg |-> NoMsg, text |-> <<>>, payload |-> NoResult]
NoOutcome == [kind |-> "none", value |-> NoResult, error |-> NoMsg]
Returned(result) == [kind |-> "return", value |-> result, error |-> NoMsg]
Thrown(msg) == [kind |-> "throw", value |-> NoResult, error |-> msg]

\* reviewCode once the provider call has thrown msg
ReviewCodeOnError(msg) == Thrown(MapProviderError(msg))

\* variant: the parse catch block goes on with its fallback object
ReviewCodeOnTextFallback(text, payload) ==
  IF ParsesModelText(text)
  THEN Returned(PostProcess(payload))
  ELSE Returned(PostProcess(FallbackResponse))

\* reviewCode once the provider call has returned text, which parses to payload
ReviewCodeOnText(text, payload) ==
  IF ParsesModelText(text)
  THEN Returned(PostProcess(payload))
  ELSE Thrown(MapProviderError(ParseFailedMsg))

\* the route once its await of reviewCode settles
RouteOnOutcome(o) ==
  IF o.kind = "return"
  THEN RouteRespond(o.value, TRUE)
  ELSE CatchResponse(o.error)

(************************ routes/github.js: state ***************************)
\* the four settings github.js reads; "" is an unset (or empty) variable
NoGhEnv == [clientId |-> "", clientSecret |-> "", redirectUri |-> "", clientUrl |-> ""]

\* req.headers.authorization: absent, or a scheme, then maybe a space and a rest
NoHeader == [present |-> FALSE, scheme |-> "", sep |-> FALSE, rest |-> ""]

\* req.body of POST /pull-request; "" is a field that is missing or empty
NoPrBody ==
  [accessToken |-> "", owner |-> "", repo |-> "", filePath |-> "",
   improvedCode |-> "", category |-> "", explanation |-> ""]

\* the name of a branch: a prefix and a time stamp
NoBranch == [prefix |-> "", stamp |-> 0]

NoGhReq == [route |-> "", code |-> "", auth |-> NoHeader, body |-> NoPrBody, now |-> 0]

NoGhLocal == [branchName |-> NoBranch, mainBranchSHA |-> "", fileSHA |-> ""]

\* no github.js request has arrived
GhQuiet(env) ==
  /\ ghEnv = env
  /\ ghPc = "idle"
  /\ ghReq = NoGhReq
  /\ ghLocal = NoGhLocal
  /\ ghCalls = <<>>
  /\ ghReplies = <<>>
  /\ ghSent = <<>>

(************************ components/Demo.tsx: state *************************)
\* codeTemplates[language].code: the sample of a language
TemplateOf(language) == <<"template", language>>

\* the useState and useRef initial values of the component
NoDemo ==
  [code |-> TemplateOf("javascript"), selectedLanguage |-> "javascript",
   isAnalyzing |-> FALSE, showResponse |-> FALSE, reviewData |-> <<>>,
   improvedCode |-> <<>>, codeAccepted |-> FALSE, error |-> ""]

\* what the handlers of a render close over and read
Closure(state) ==
  [code |-> state.code, selectedLanguage |-> state.selectedLanguage,
   isAnalyzing |-> state.isAnalyzing, improvedCode |-> state.improvedCode]

\* the component as mounted: state as initialised, rendered once, nothing
\* running
DemoMounted ==
  /\ demo = NoDemo
  /\ rendered = Closure(NoDemo)
  /\ isRequestInProgressRef = FALSE
  /\ progressIntervals = 0
  /\ pending = <<>>
  /\ timers = 0

(****************************** actions *************************************)
Init ==
  /\ apiKey \in ApiKeys
  /\ genAI = MakeGenAI(apiKey)
  /\ pc = "idle"
  /\ req = [code |-> Undef, language |-> Undef]
  /\ reviewCalls = 0
  /\ modelCalls = 0
  /\ reply = NoReply
  /\ outcome = NoOutcome
  /\ response = NoResponse
  /\ GhQuiet(NoGhEnv)
  /\ served = <<>>
  /\ DemoMounted

\* POST /api/review, up to the await of model.generateContent
PostReview(code, language) ==
  /\ pc = "idle"
  /\ req' = [code |-> code, language |-> language]
  /\ IF ValidationError(code, language) # NoMsg
     THEN /\ response' = ErrorResponse(400, ValidationError(code, language))
          /\ pc' = "done"
          /\ UNCHANGED <<reviewCalls, modelCalls, outcome>>
     ELSE /\ reviewCalls' = reviewCalls + 1
          /\ IF KeyRejected(apiKey, genAI)
             THEN /\ outcome' = Thrown(NotConfiguredMsg)
                  /\ response' = RouteOnOutcome(Thrown(NotConfiguredMsg))
                  /\ pc' = "done"
                  /\ UNCHANGED modelCalls
             ELSE /\ modelCalls' = modelCalls + 1
                  /\ pc' = "awaiting"
                  /\ UNCHANGED <<outcome, response>>
  /\ UNCHANGED <<apiKey, genAI, reply>>
  /\ UNCHANGED <<ghVars, served, demoVars>>

\* the provider call (or reading its response) throws
GenerateContentThrows(msg) ==
  /\ pc = "awaiting"
  /\ reply' = [NoReply EXCEPT !.kind = "error", !.msg = msg]
  /\ outcome' = ReviewCodeOnError(msg)
  /\ response' = RouteOnOutcome(ReviewCodeOnError(msg))
  /\ pc' = "done"
  /\ UNCHANGED <<apiKey, genAI, req, reviewCalls, modelCalls>>
  /\ UNCHANGED <<ghVars, served, demoVars>>

\* the provider call returns text
GenerateContentReturns(text, payload) ==
  /\ pc = "awaiting"
  /\ reply' = [NoReply EXCEPT !.kind = "text", !.text = text, !.payload = payload]
  /\ outcome' = ReviewCodeOnText(text, payload)
  /\ response' = RouteOnOutcome(ReviewCodeOnText(text, payload))
  /\ pc' = "done"
  /\ UNCHANGED <<apiKey, genAI, req, reviewCalls, modelCalls>>
  /\ UNCHANGED <<ghVars, served, demoVars>>

Next ==
  \/ \E code \in Codes, language \in Languages : PostReview(code, language)
  \/ pc = "awaiting" /\ \E msg \in ProviderMessages : GenerateContentThrows(msg)
  \/ pc = "awaiting" /\ \E n \in 0..MaxTextLen : \E text \in [1..n -> TextTokens] :
       \E payload \in PayloadsOf(text) : GenerateContentReturns(text, payload)

Spec == Init /\ [][Next]_vars

TypeOK ==
  /\ apiKey \in ApiKeys
  /\ genAI \in BOOLEAN
  /\ pc \in {"idle", "awaiting", "done"}
  /\ reviewCalls \in 0..1
  /\ modelCalls \in 0..1
  /\ response.status \in {0, 200, 400, 429, 500}

(************************ routes/github.js: texts ***************************)
(* A text is a sequence of tokens: words, and the separators " " and ":"   *)
(* as tokens of their own.  A value of a JSON payload is [t, text] with t  *)
(* "undefined", "string" or "number".                                      *)
NoValue == [t |-> "undefined", text |-> <<>>]
StrValue(text) == [t |-> "string", text |-> text]
\* ToBoolean of a payload value
ValueTruthy(v) == v.t = "number" \/ (v.t = "string" /\ v.text # <<>>)

\* a || b on payload values
ValueOr(a, b) == IF ValueTruthy(a) THEN a ELSE b

\* text.includes(marker): a token holds the marker as a substring
TextIncludes(text, marker) ==
  \E i \in 1..Len(text) :
    text[i] = marker \/ (text[i] = "redirect_uri_mismatch" /\ marker = "redirect_uri")

\* encodeURIComponent(text)
EncodeURIComponent(text) ==
  [i \in 1..Len(text) |->
     CASE text[i] = " " -> "%20"
       [] text[i] = ":" -> "%3A"
       [] text[i] = "<" -> "%3C"
       [] OTHER -> text[i]]

\* the texts the callback writes into an error fragment
CallbackText(which) ==
  CASE which = "missing_code" ->
         <<"Missing", " ", "authorization", " ", "code", " ", "from", " ", "GitHub">>
    [] which = "not_configured" ->
         <<"GitHub", " ", "OAuth", " ", "not", " ", "configured.", " ", "Please", " ",
           "set", " ", "GITHUB_CLIENT_ID", " ", "and", " ", "GITHUB_CLIENT_SECRET", " ",
           "in", " ", "your", " ", ".env", " ", "file.">>
    [] which = "client_credential" ->
         <<"GitHub", " ", "OAuth", " ", "configuration", " ", "error", ":", " ",
           "Please", " ", "check", " ", "your", " ", "GITHUB_CLIENT_ID", " ", "and",
           " ", "GITHUB_CLIENT_SECRET", " ", "in", " ", "your", " ", ".env", " ",
           "file.">>
    [] which = "redirect_mismatch" ->
         <<"GitHub", " ", "OAuth", " ", "redirect", " ", "URI", " ", "mismatch", ":",
           " ", "Please", " ", "ensure", " ", "GITHUB_REDIRECT_URI", " ", "matches",
           " ", "your", " ", "GitHub", " ", "app", " ", "settings.">>
    [] OTHER -> <<"No", " ", "access", " ", "token", " ", "received">>

\* 'GitHub OAuth failed: '
OAuthFailedPrefix == <<"GitHub", " ", "OAuth", " ", "failed", ":", " ">>

\* error.message of what the runtime throws: the TypeError of includes on a
\* value that is no string, of map on one that is no array, of a property
\* read on null or undefined, the SyntaxError of json() on a body that is no
\* JSON, and the error of a fetch that cannot reach the remote
ErrorMessageText(kind) ==
  CASE kind = "includes" ->
         <<"errorDescription.includes", " ", "is", " ", "not", " ", "a", " ", "function">>
    [] kind = "map" -> <<"reposData.map", " ", "is", " ", "not", " ", "a", " ", "function">>
    [] kind = "null" -> <<"Cannot", " ", "read", " ", "properties", " ", "of", " ", "null">>
    [] kind = "undefined" ->
         <<"Cannot", " ", "read", " ", "properties", " ", "of", " ", "undefined">>
    [] kind = "json" -> <<"Unexpected", " ", "token", " ", "<", " ", "in", " ", "JSON">>
    [] OTHER -> <<"fetch", " ", "failed">>

\* response.statusText
StatusText(status) ==
  CASE status = 200 -> <<"OK">>
    [] status = 201 -> <<"Created">>
    [] status = 401 -> <<"Unauthorized">>
    [] status = 404 -> <<"Not", " ", "Found">>
    [] status = 409 -> <<"Conflict">>
    [] status = 422 -> <<"Unprocessable", " ", "Entity">>
    [] OTHER -> <<"Internal", " ", "Server", " ", "Error">>

\* variant: every status below 500 counts as success
OkBelow500(status) == status >= 200 /\ status <= 499

\* response.ok
Ok(status) == status >= 200 /\ status <= 299

(*********************** routes/github.js: responses ************************)
NoUrl == [base |-> "", query |-> <<>>, fragment |-> <<>>]
NoMessageBody == [text |-> "", status |-> 0, detail |-> <<>>]
NoBody == [error |-> "", message |-> NoMessageBody, success |-> FALSE, data |-> <<>>]

\* the message of an error thrown by the runtime, fetch or a JSON parse
ThrownMessage(text) == [NoMessageBody EXCEPT !.detail = text]

\* res.redirect(url)
Redirect(url) == [kind |-> "redirect", status |-> 302, url |-> url, body |-> NoBody]

\* res.status(status).json(body)
Json(status, body) == [kind |-> "json", status |-> status, url |-> NoUrl, body |-> body]

\* process.env.CLIENT_URL || 'http://localhost:5173'
FrontendUrl(env) == IF env.clientUrl # "" THEN env.clientUrl ELSE "http://localhost:5173"

\* res.redirect(`${frontendUrl}#error=${encodeURIComponent(text)}`)
ErrorRedirect(front, text) ==
  Redirect([NoUrl EXCEPT !.base = front,
                         !.fragment = <<"error", "=">> \o EncodeURIComponent(text)])

\* res.redirect(`${frontendUrl}#token=${accessToken}`)
TokenRedirectInQuery(front, accessToken) ==
  Redirect([NoUrl EXCEPT !.base = front,
                         !.query = << <<"token">> \o accessToken.text >>])
TokenRedirect(front, accessToken) ==
  Redirect([NoUrl EXCEPT !.base = front,
                         !.fragment = <<"token", "=">> \o accessToken.text])

(********************* routes/github.js: GET /login *************************)
\* the whole handler of GET /login
LoginResponseIdOnly(env) ==
  IF env.clientId = ""
  THEN Json(500, [NoBody EXCEPT
         !.error = "GitHub OAuth not configured",
         !.message = [NoMessageBody EXCEPT !.text =
           "Missing GITHUB_CLIENT_ID or GITHUB_REDIRECT_URI environment variables"]])
  ELSE Redirect([NoUrl EXCEPT
         !.base = "https://github.com/login/oauth/authorize",
         !.query = << <<"client_id", env.clientId>>,
                      <<"redirect_uri", env.redirectUri>>,
                      <<"scope", "repo">>,
                      <<"allow_signup", "true">> >>])
LoginResponse(env) ==
  IF env.clientId = "" \/ env.redirectUri = ""
  THEN Json(500, [NoBody EXCEPT
         !.error = "GitHub OAuth not configured",
         !.message = [NoMessageBody EXCEPT !.text =
           "Missing GITHUB_CLIENT_ID or GITHUB_REDIRECT_URI environment variables"]])
  ELSE Redirect([NoUrl EXCEPT
         !.base = "https://github.com/login/oauth/authorize",
         !.query = << <<"client_id", env.clientId>>,
                      <<"redirect_uri", env.redirectUri>>,
                      <<"scope", "repo">>,
                      <<"allow_signup", "true">> >>])

(******************** routes/github.js: GET /callback ***********************)
NoCall ==
  [step |-> "", method |-> "", url |-> "", owner |-> "", repo |-> "", filePath |-> "",
   token |-> "", clientId |-> "", clientSecret |-> "", code |-> "",
   ref |-> NoBranch, sha |-> "", branch |-> NoBranch, content |-> [encoding |-> "", of |-> ""],
   message |-> <<>>, title |-> <<>>, head |-> NoBranch, base |-> "", body |-> ""]

\* what a remote call comes back with: a thrown error, or a response whose
\* body is no JSON ("invalid"), the JSON null, or a JSON object
NoReplyGh ==
  [kind |-> "response", status |-> 200, json |-> "object", thrown |-> <<>>,
   error |-> NoValue, error_description |-> NoValue, access_token |-> NoValue,
   message |-> NoValue, hasObject |-> FALSE, sha |-> "", items |-> <<>>,
   html_url |-> "", number |-> 0]

\* the branch of the callback for a payload with an error or without a token
ClassifyTokenFailureNoRedirectUri(front, r) ==
  LET errorDescription ==
        ValueOr(r.error_description, ValueOr(r.error, StrValue(CallbackText("no_token"))))
  IN IF errorDescription.t # "string"
     THEN ErrorRedirect(front, OAuthFailedPrefix \o ErrorMessageText("includes"))
     ELSE IF TextIncludes(errorDescription.text, "client_id")
             \/ TextIncludes(errorDescription.text, "client_secret")
     THEN ErrorRedirect(front, CallbackText("client_credential"))
     ELSE ErrorRedirect(front, OAuthFailedPrefix \o errorDescription.text)
ClassifyTokenFailure(front, r) ==
  LET errorDescription ==
        ValueOr(r.error_description, ValueOr(r.error, StrValue(CallbackText("no_token"))))
  IN IF errorDescription.t # "string"
     THEN ErrorRedirect(front, OAuthFailedPrefix \o ErrorMessageText("includes"))
     ELSE IF TextIncludes(errorDescription.text, "client_id")
             \/ TextIncludes(errorDescription.text, "client_secret")
     THEN ErrorRedirect(front, CallbackText("client_credential"))
     ELSE IF TextIncludes(errorDescription.text, "redirect_uri")
     THEN ErrorRedirect(front, CallbackText("redirect_mismatch"))
     ELSE ErrorRedirect(front, OAuthFailedPrefix \o errorDescription.text)

\* the callback from the settling of the token exchange on
CallbackOnReplyJsonOnThrow(front, r) ==
  IF r.kind = "throw"
  THEN Json(500, [NoBody EXCEPT !.error = "GitHub OAuth failed",
                                !.message = ThrownMessage(r.thrown)])
  ELSE IF ~Ok(r.status)
  THEN ErrorRedirect(front, OAuthFailedPrefix \o <<ToString(r.status), " ">>
                              \o StatusText(r.status))
  ELSE IF r.json = "invalid"
  THEN ErrorRedirect(front, OAuthFailedPrefix \o ErrorMessageText("json"))
  ELSE IF r.json = "null"
  THEN ErrorRedirect(front, OAuthFailedPrefix \o ErrorMessageText("null"))
  ELSE IF ValueTruthy(r.error) \/ ~ValueTruthy(r.access_token)
  THEN ClassifyTokenFailure(front, r)
  ELSE TokenRedirect(front, r.access_token)
CallbackOnReply(front, r) ==
  IF r.kind = "throw"
  THEN ErrorRedirect(front, OAuthFailedPrefix \o r.thrown)
  ELSE IF ~Ok(r.status)
  THEN ErrorRedirect(front, OAuthFailedPrefix \o <<ToString(r.status), " ">>
                              \o StatusText(r.status))
  ELSE IF r.json = "invalid"
  THEN ErrorRedirect(front, OAuthFailedPrefix \o ErrorMessageText("json"))
  ELSE IF r.json = "null"
  THEN ErrorRedirect(front, OAuthFailedPrefix \o ErrorMessageText("null"))
  ELSE IF ValueTruthy(r.error) \/ ~ValueTruthy(r.access_token)
  THEN ClassifyTokenFailure(front, r)
  ELSE TokenRedirect(front, r.access_token)

(********************** routes/github.js: GET /repos ************************)
\* the guard of GET /repos: the header is refused
HeaderRefusedAnyScheme(h) == ~h.present \/ (h.scheme = "" /\ ~h.sep /\ h.rest = "")
HeaderRefused(h) ==
  ~h.present \/ (h.scheme = "" /\ ~h.sep /\ h.rest = "")
    \/ ~(h.scheme = "Bearer" /\ h.sep)

InvalidTokenResponse ==
  Json(401, [NoBody EXCEPT
    !.error = "Invalid or expired token",
    !.message = [NoMessageBody EXCEPT !.text = "Please re-authenticate with GitHub"]])

\* the catch block of GET /repos
ReposFailed(message) ==
  Json(500, [NoBody EXCEPT !.error = "Failed to fetch repositories", !.message = message])

\* GET /repos from the settling of the remote call on
ReposOnReply(r) ==
  IF r.kind = "throw" THEN ReposFailed(ThrownMessage(r.thrown))
  ELSE IF r.status = 401 THEN InvalidTokenResponse
  ELSE IF ~Ok(r.status)
  THEN ReposFailed([NoMessageBody EXCEPT !.text = "GitHub API responded with status ",
                                         !.status = r.status])
  ELSE IF r.json = "invalid" THEN ReposFailed(ThrownMessage(ErrorMessageText("json")))
  ELSE IF r.json = "null" THEN ReposFailed(ThrownMessage(ErrorMessageText("null")))
  ELSE IF r.json # "array" THEN ReposFailed(ThrownMessage(ErrorMessageText("map")))
  ELSE IF \E i \in 1..Len(r.items) : ~r.items[i].hasOwner
  THEN ReposFailed(ThrownMessage(ErrorMessageText("undefined")))
  ELSE Json(200, [NoBody EXCEPT
         !.data = [i \in 1..Len(r.items) |->
                    [name |-> r.items[i].name, full_name |-> r.items[i].full_name,
                     owner |-> r.items[i].login,
                     default_branch |-> r.items[i].default_branch,
                     url |-> r.items[i].html_url]]])

(****************** routes/github.js: POST /pull-request ********************)
\* variant: the guard leaves out the explanation
MissingFieldsSix(b) ==
  \/ b.accessToken = "" \/ b.owner = "" \/ b.repo = "" \/ b.filePath = ""
  \/ b.improvedCode = "" \/ b.category = ""

\* the guard on the seven fields of the body
MissingFields(b) ==
  \/ b.accessToken = "" \/ b.owner = "" \/ b.repo = "" \/ b.filePath = ""
  \/ b.improvedCode = "" \/ b.category = "" \/ b.explanation = ""

\* `aireviewmate-update-${Date.now()}`
BranchName(now) == [prefix |-> "aireviewmate-update-", stamp |-> now]

\* Buffer.from(improvedCode).toString('base64')
Base64(code) == [encoding |-> "base64", of |-> code]

\* The remote call of one step of the handler: (a) GET the ref of main,
\* (b) POST the new ref, (c) GET the file, (d) PUT the improved code on the
\* new branch, (e) POST the pull request.
StepCallMainSha(step, b, local) ==
  LET call == [NoCall EXCEPT !.step = step, !.token = b.accessToken,
                             !.owner = b.owner, !.repo = b.repo]
  IN CASE step = "a" ->
            [call EXCEPT !.method = "GET",
                         !.url = "/repos/{owner}/{repo}/git/refs/heads/main"]
       [] step = "b" ->
            [call EXCEPT !.method = "POST", !.url = "/repos/{owner}/{repo}/git/refs",
                         !.ref = local.branchName, !.sha = local.mainBranchSHA]
       [] step = "c" ->
            [call EXCEPT !.method = "GET",
                         !.url = "/repos/{owner}/{repo}/contents/{filePath}",
                         !.filePath = b.filePath]
       [] step = "d" ->
            [call EXCEPT !.method = "PUT",
                         !.url = "/repos/{owner}/{repo}/contents/{filePath}",
                         !.filePath = b.filePath,
                         !.message = <<"AIReviewMate: ", b.category>>,
                         !.content = Base64(b.improvedCode),
                         !.sha = local.mainBranchSHA, !.branch = local.branchName]
       [] OTHER ->
            [call EXCEPT !.method = "POST", !.url = "/repos/{owner}/{repo}/pulls",
                         !.title = <<"AI Review Suggestion: ", b.category>>,
                         !.head = local.branchName, !.base = "main",
                         !.body = b.explanation]
StepCall(step, b, local) ==
  LET call == [NoCall EXCEPT !.step = step, !.token = b.accessToken,
                             !.owner = b.owner, !.repo = b.repo]
  IN CASE step = "a" ->
            [call EXCEPT !.method = "GET",
                         !.url = "/repos/{owner}/{repo}/git/refs/heads/main"]
       [] step = "b" ->
            [call EXCEPT !.method = "POST", !.url = "/repos/{owner}/{repo}/git/refs",
                         !.ref = local.branchName, !.sha = local.mainBranchSHA]
       [] step = "c" ->
            [call EXCEPT !.method = "GET",
                         !.url = "/repos/{owner}/{repo}/contents/{filePath}",
                         !.filePath = b.filePath]
       [] step = "d" ->
            [call EXCEPT !.method = "PUT",
                         !.url = "/repos/{owner}/{repo}/contents/{filePath}",
                         !.filePath = b.filePath,
                         !.message = <<"AIReviewMate: ", b.category>>,
                         !.content = Base64(b.improvedCode),
                         !.sha = local.fileSHA, !.branch = local.branchName]
       [] OTHER ->
            [call EXCEPT !.method = "POST", !.url = "/repos/{owner}/{repo}/pulls",
                         !.title = <<"AI Review Suggestion: ", b.category>>,
                         !.head = local.branchName, !.base = "main",
                         !.body = b.explanation]

\* the catch block of POST /pull-request: the remote calls it makes and the
\* response it sends
CatchBlockDeletesBranch(b, local, message) ==
  [calls |-> << [NoCall EXCEPT !.step = "cleanup", !.method = "DELETE",
                               !.url = "/repos/{owner}/{repo}/git/refs",
                               !.token = b.accessToken, !.owner = b.owner,
                               !.repo = b.repo, !.ref = local.branchName] >>,
   resp |-> Json(500, [NoBody EXCEPT !.error = "Failed to create pull request",
                                     !.message = message])]

\* variant: the catch block issues step (a) again
CatchBlockRetries(b, local, message) ==
  [calls |-> << StepCall("a", b, local) >>,
   resp |-> Json(500, [NoBody EXCEPT !.error = "Failed to create pull request",
                                     !.message = message])]
CatchBlock(b, local, message) ==
  [calls |-> <<>>,
   resp |-> Json(500, [NoBody EXCEPT !.error = "Failed to create pull request",
                                     !.message = message])]

\* new Error(`${text}${status}`)
StatusMessageNoStatus(text, status) == [NoMessageBody EXCEPT !.text = text]
StatusMessage(text, status) == [NoMessageBody EXCEPT !.text = text, !.status = status]

\* What the handler does with the reply to one step: "go" on to the next step,
\* "return" a response, or "throw" a message to the catch block.
Go == [to |-> "go", resp |-> Json(0, NoBody), message |-> NoMessageBody]
Return(resp) == [Go EXCEPT !.to = "return", !.resp = resp]
Throw(message) == [Go EXCEPT !.to = "throw", !.message = message]

\* One step from its reply on, up to the next fetch: the tests of the status,
\* then for (a) the read of refData.object.sha, for (c) of fileData.sha, for
\* (e) of the error body or of prData and the success response.
OnStepNoConflict(step, r, local) ==
  IF r.kind = "throw" THEN Throw(ThrownMessage(r.thrown))
  ELSE IF step = "a" /\ r.status = 401 THEN Return(InvalidTokenResponse)
  ELSE IF ~Ok(r.status)
  THEN CASE step = "a" -> Throw(StatusMessage("Failed to fetch main branch: ", r.status))
         [] step = "b" -> Throw(StatusMessage("Failed to create branch: ", r.status))
         [] step = "c" -> Throw(StatusMessage("Failed to fetch file: ", r.status))
         [] step = "d" -> Throw(StatusMessage("Failed to commit code: ", r.status))
         [] OTHER ->
              IF r.json = "null" THEN Throw(ThrownMessage(ErrorMessageText("null")))
              ELSE Throw([StatusMessage("Failed to create PR: ", r.status) EXCEPT
                     !.detail = <<" - ">> \o
                       (IF r.json = "invalid" THEN <<"Unknown", " ", "error">>
                        ELSE ValueOr(r.message,
                                     StrValue(<<"Unknown", " ", "error">>)).text)])
  ELSE IF step \in {"b", "d"} THEN Go
  ELSE IF r.json = "invalid" THEN Throw(ThrownMessage(ErrorMessageText("json")))
  ELSE IF r.json = "null" THEN Throw(ThrownMessage(ErrorMessageText("null")))
  ELSE IF step = "a" /\ ~r.hasObject
  THEN Throw(ThrownMessage(ErrorMessageText("undefined")))
  ELSE IF step = "e"
  THEN Return(Json(200, [NoBody EXCEPT
         !.success = TRUE,
         !.data = << [url |-> r.html_url, number |-> r.number,
                      branch |-> local.branchName] >>]))
  ELSE Go
OnStep(step, r, local) ==
  IF r.kind = "throw" THEN Throw(ThrownMessage(r.thrown))
  ELSE IF step = "a" /\ r.status = 401 THEN Return(InvalidTokenResponse)
  ELSE IF step = "b" /\ r.status = 409
  THEN Return(Json(409, [NoBody EXCEPT
         !.error = "Branch conflict",
         !.message = [NoMessageBody EXCEPT
           !.text = "A branch with this name already exists. Please try again."]]))
  ELSE IF ~Ok(r.status)
  THEN CASE step = "a" -> Throw(StatusMessage("Failed to fetch main branch: ", r.status))
         [] step = "b" -> Throw(StatusMessage("Failed to create branch: ", r.status))
         [] step = "c" -> Throw(StatusMessage("Failed to fetch file: ", r.status))
         [] step = "d" -> Throw(StatusMessage("Failed to commit code: ", r.status))
         [] OTHER ->
              IF r.json = "null" THEN Throw(ThrownMessage(ErrorMessageText("null")))
              ELSE Throw([StatusMessage("Failed to create PR: ", r.status) EXCEPT
                     !.detail = <<" - ">> \o
                       (IF r.json = "invalid" THEN <<"Unknown", " ", "error">>
                        ELSE ValueOr(r.message,
                                     StrValue(<<"Unknown", " ", "error">>)).text)])
  ELSE IF step \in {"b", "d"} THEN Go
  ELSE IF r.json = "invalid" THEN Throw(ThrownMessage(ErrorMessageText("json")))
  ELSE IF r.json = "null" THEN Throw(ThrownMessage(ErrorMessageText("null")))
  ELSE IF step = "a" /\ ~r.hasObject
  THEN Throw(ThrownMessage(ErrorMessageText("undefined")))
  ELSE IF step = "e"
  THEN Return(Json(200, [NoBody EXCEPT
         !.success = TRUE,
         !.data = << [url |-> r.html_url, number |-> r.number,
                      branch |-> local.branchName] >>]))
  ELSE Go

\* GET /login
GetLogin ==
  /\ ghPc = "idle"
  /\ ghReq' = [NoGhReq EXCEPT !.route = "login"]
  /\ ghSent' = Append(ghSent, LoginResponse(ghEnv))
  /\ ghPc' = "done"
  /\ UNCHANGED <<ghEnv, ghLocal, ghCalls, ghReplies>>
  /\ UNCHANGED <<reviewVars, served, demoVars>>

\* the two guards of GET /callback: the text it refuses with, <<>> for none
CallbackRefusalCodeOnly(env, code) ==
  IF code = "" THEN CallbackText("missing_code") ELSE <<>>
CallbackRefusal(env, code) ==
  IF code = "" THEN CallbackText("missing_code")
  ELSE IF env.clientId = "" \/ env.clientSecret = "" THEN CallbackText("not_configured")
  ELSE <<>>

\* GET /callback, up to the await of the token exchange
GetCallback(code) ==
  /\ ghPc = "idle"
  /\ ghReq' = [NoGhReq EXCEPT !.route = "callback", !.code = code]
  /\ IF CallbackRefusal(ghEnv, code) # <<>>
     THEN /\ ghSent' = Append(ghSent, ErrorRedirect(FrontendUrl(ghEnv),
                                                    CallbackRefusal(ghEnv, code)))
          /\ ghPc' = "done"
          /\ UNCHANGED ghCalls
     ELSE /\ ghCalls' = Append(ghCalls,
               [NoCall EXCEPT !.step = "token", !.method = "POST",
                              !.url = "https://github.com/login/oauth/access_token",
                              !.clientId = ghEnv.clientId,
                              !.clientSecret = ghEnv.clientSecret, !.code = code])
          /\ ghPc' = "token"
          /\ UNCHANGED ghSent
  /\ UNCHANGED <<ghEnv, ghLocal, ghReplies>>
  /\ UNCHANGED <<reviewVars, served, demoVars>>

\* variant: the callback keeps a note of the token in module state
TokenExchangeSettlesKeepsToken(r) ==
  /\ ghPc = "token"
  /\ ghReplies' = Append(ghReplies, r)
  /\ ghSent' = Append(ghSent, CallbackOnReply(FrontendUrl(ghEnv), r))
  /\ ghPc' = "done"
  /\ ghEnv' = [ghEnv EXCEPT !.clientUrl =
                 IF ValueTruthy(r.access_token) THEN "token" ELSE ghEnv.clientUrl]
  /\ UNCHANGED <<ghReq, ghLocal, ghCalls>>
  /\ UNCHANGED <<reviewVars, served, demoVars>>

\* the token exchange settles
TokenExchangeSettles(r) ==
  /\ ghPc = "token"
  /\ ghReplies' = Append(ghReplies, r)
  /\ ghSent' = Append(ghSent, CallbackOnReply(FrontendUrl(ghEnv), r))
  /\ ghPc' = "done"
  /\ UNCHANGED <<ghEnv, ghReq, ghLocal, ghCalls>>
  /\ UNCHANGED <<reviewVars, served, demoVars>>

\* GET /repos, up to the await of the remote call
GetRepos(h) ==
  /\ ghPc = "idle"
  /\ ghReq' = [NoGhReq EXCEPT !.route = "repos", !.auth = h]
  /\ IF HeaderRefused(h)
     THEN /\ ghSent' = Append(ghSent, Json(401, [NoBody EXCEPT
               !.error = "Missing access token",
               !.message = [NoMessageBody EXCEPT
                 !.text = "Authorization header with Bearer token is required"]]))
          /\ ghPc' = "done"
          /\ UNCHANGED ghCalls
     ELSE /\ ghCalls' = Append(ghCalls,
               [NoCall EXCEPT !.step = "repos", !.method = "GET",
                              !.url = "https://api.github.com/user/repos",
                              !.token = h.rest])
          /\ ghPc' = "repos"
          /\ UNCHANGED ghSent
  /\ UNCHANGED <<ghEnv, ghLocal, ghReplies>>
  /\ UNCHANGED <<reviewVars, served, demoVars>>

\* the call of GET /repos settles
ReposSettles(r) ==
  /\ ghPc = "repos"
  /\ ghReplies' = Append(ghReplies, r)
  /\ ghSent' = Append(ghSent, ReposOnReply(r))
  /\ ghPc' = "done"
  /\ UNCHANGED <<ghEnv, ghReq, ghLocal, ghCalls>>
  /\ UNCHANGED <<reviewVars, served, demoVars>>

\* POST /pull-request, up to the await of step A
PostPullRequest(b, now) ==
  /\ ghPc = "idle"
  /\ ghReq' = [NoGhReq EXCEPT !.route = "pull-request", !.body = b, !.now = now]
  /\ IF MissingFields(b)
     THEN /\ ghSent' = Append(ghSent,
                         Json(400, [NoBody EXCEPT !.error = "Missing required fields"]))
          /\ ghPc' = "done"
          /\ UNCHANGED <<ghCalls, ghLocal>>
     ELSE /\ ghLocal' = [NoGhLocal EXCEPT !.branchName = BranchName(now)]
          /\ ghCalls' = Append(ghCalls, StepCall("a", b, NoGhLocal))
          /\ ghPc' = "a"
          /\ UNCHANGED ghSent
  /\ UNCHANGED <<ghEnv, ghReplies>>
  /\ UNCHANGED <<reviewVars, served, demoVars>>

\* One step of POST /pull-request settles with reply r, which the handler
\* takes as o: it goes on to the next await, returns, or runs the catch block.
StepSettles(r, o, nextPc, nextCall, nextLocal) ==
  /\ ghReplies' = Append(ghReplies, r)
  /\ CASE o.to = "go" ->
            /\ ghCalls' = Append(ghCalls, nextCall)
            /\ ghPc' = nextPc
            /\ ghLocal' = nextLocal
            /\ UNCHANGED ghSent
       [] o.to = "return" ->
            /\ ghSent' = Append(ghSent, o.resp)
            /\ ghPc' = "done"
            /\ UNCHANGED <<ghCalls, ghLocal>>
       [] OTHER ->
            LET caught == CatchBlock(ghReq.body, ghLocal, o.message)
            IN /\ ghCalls' = ghCalls \o caught.calls
               /\ ghSent' = Append(ghSent, caught.resp)
               /\ ghPc' = "done"
               /\ UNCHANGED ghLocal
  /\ UNCHANGED <<ghEnv, ghReq>>
  /\ UNCHANGED <<reviewVars, served, demoVars>>

\* step A settles
RefSettles(r) ==
  /\ ghPc = "a"
  /\ LET local == [ghLocal EXCEPT !.mainBranchSHA = r.sha]
     IN StepSettles(r, OnStep("a", r, ghLocal), "b", StepCall("b", ghReq.body, local), local)

\* step B settles
CreateBranchSettles(r) ==
  /\ ghPc = "b"
  /\ StepSettles(r, OnStep("b", r, ghLocal), "c", StepCall("c", ghReq.body, ghLocal), ghLocal)

\* step C settles
FileSettles(r) ==
  /\ ghPc = "c"
  /\ LET local == [ghLocal EXCEPT !.fileSHA = r.sha]
     IN StepSettles(r, OnStep("c", r, ghLocal), "d", StepCall("d", ghReq.body, local), local)

\* step D settles
CommitSettles(r) ==
  /\ ghPc = "d"
  /\ StepSettles(r, OnStep("d", r, ghLocal), "e", StepCall("e", ghReq.body, ghLocal), ghLocal)

\* step E settles
PullSettles(r) ==
  /\ ghPc = "e"
  /\ StepSettles(r, OnStep("e", r, ghLocal), "done", NoCall, ghLocal)

(*********************** routes/github.js: inputs ***************************)
\* process.env as the module reads it at load; "" is unset
GhEnvs ==
  [clientId : {"", "Iv1.abc"}, clientSecret : {"", "s3cret"},
   redirectUri : {"", "http://localhost:3000/api/github/callback"},
   clientUrl : {"", "https://app.example"}]

\* req.headers.authorization
AuthHeaders ==
  { NoHeader,
    [present |-> TRUE, scheme |-> "", sep |-> FALSE, rest |-> ""],
    [present |-> TRUE, scheme |-> "Bearer", sep |-> FALSE, rest |-> ""],
    [present |-> TRUE, scheme |-> "Basic", sep |-> TRUE, rest |-> "dXNlcg=="],
    [present |-> TRUE, scheme |-> "bearer", sep |-> TRUE, rest |-> "gho_A"],
    [present |-> TRUE, scheme |-> "Bearer", sep |-> TRUE, rest |-> "gho_A"],
    [present |-> TRUE, scheme |-> "Bearer", sep |-> TRUE, rest |-> "gho_B"] }

\* req.body of POST /pull-request
PrBodies ==
  [accessToken : {"", "gho_A"}, owner : {"", "octo"}, repo : {"", "app", "lib"},
   filePath : {"", "src/a.js"}, improvedCode : {"", "let x = 1;"},
   category : {"", "Bug Fix"}, explanation : {"", "Fixes the bug"}]

\* What the remote call of a step can come back with: a thrown error, or a
\* response with a status and a body that is no JSON ("invalid"), the JSON
\* null, an object or an array.
Replies(step) ==
  LET Status(status, json) == [NoReplyGh EXCEPT !.status = status, !.json = json]
      Rejected == {[NoReplyGh EXCEPT !.kind = "throw", !.status = 0,
                                   !.thrown = ErrorMessageText("fetch")]}
      Number == [t |-> "number", text |-> <<"42">>]
      WrongClient ==
        <<"The", " ", "client_id", " ", "and", " ", "client_secret", " ", "passed", " ",
          "are", " ", "incorrect.">>
      Descriptions ==
        { <<"The", " ", "code", " ", "passed", " ", "is", " ", "incorrect", " ", "or",
            " ", "expired.">>,
          WrongClient,
          <<"Bad", " ", "client_secret">>,
          <<"The", " ", "redirect_uri", " ", "MUST", " ", "match", " ", "the", " ",
            "registered", " ", "callback", " ", "URL.">>,
          <<"client_id", " ", "does", " ", "not", " ", "own", " ", "redirect_uri">> }
      RepoItems ==
        { [name |-> "app", full_name |-> "octo/app", hasOwner |-> TRUE, login |-> "octo",
           default_branch |-> "main", html_url |-> "https://github.com/octo/app"],
          [name |-> "lib", full_name |-> "acme/lib", hasOwner |-> TRUE, login |-> "acme",
           default_branch |-> "develop", html_url |-> "https://github.com/acme/lib"],
          [name |-> "odd", full_name |-> "", hasOwner |-> FALSE, login |-> "",
           default_branch |-> "", html_url |-> ""] }
      Shas == {"", "sha1", "sha2"}
  IN CASE step = "token" ->
            Rejected
            \cup {Status(200, "invalid"), Status(200, "null")}
            \cup {[Status(status, "object") EXCEPT
                     !.error = StrValue(<<"incorrect_client_credentials">>),
                     !.error_description = StrValue(WrongClient)] :
                    status \in {401, 404, 500}}
            \cup {[Status(200, "object") EXCEPT !.error = e, !.error_description = d,
                                               !.access_token = t] :
                    e \in {NoValue, StrValue(<<"bad_verification_code">>),
                           StrValue(<<"redirect_uri_mismatch">>)},
                    d \in {NoValue, Number} \cup {StrValue(x) : x \in Descriptions},
                    t \in {NoValue, Number, StrValue(<<>>), StrValue(<<"gho_A">>),
                           StrValue(<<"gho_B">>)}}
       [] step = "repos" ->
            Rejected
            \cup {Status(status, "object") : status \in {401, 403, 500}}
            \cup {Status(200, json) : json \in {"invalid", "null", "object"}}
            \cup {[Status(200, "array") EXCEPT !.items = items] :
                    items \in UNION {[1..n -> RepoItems] : n \in 0..MaxRepos}}
       [] step = "a" ->
            Rejected
            \cup {Status(status, "object") : status \in {401, 404, 500}}
            \cup {Status(200, json) : json \in {"invalid", "null", "object"}}
            \cup {[Status(200, "object") EXCEPT !.hasObject = TRUE, !.sha = sha] :
                    sha \in Shas}
       [] step = "b" ->
            Rejected \cup {Status(status, "object") : status \in {201, 401, 404, 409, 422}}
       [] step = "c" ->
            Rejected
            \cup {Status(status, "object") : status \in {401, 404}}
            \cup {Status(200, json) : json \in {"invalid", "null"}}
            \cup {[Status(200, "object") EXCEPT !.sha = sha] : sha \in Shas}
       [] step = "d" ->
            Rejected \cup {Status(status, "object") : status \in {200, 201, 404, 409, 422}}
       [] OTHER ->
            Rejected
            \cup {Status(status, json) : status \in {201, 422}, json \in {"invalid", "null"}}
            \cup {[Status(status, "object") EXCEPT !.message = m] :
                    status \in {403, 422},
                    m \in {NoValue, Number, StrValue(<<"Validation", " ", "Failed">>)}}
            \cup {[Status(201, "object") EXCEPT
                     !.html_url = "https://github.com/octo/app/pull/7", !.number = 7]}

(******************* routes/github.js: specification ************************)
\* The router after the module has loaded, for every environment.  The
\* review route stays as constructed.
GhInit ==
  /\ apiKey = "valid"
  /\ genAI = MakeGenAI(apiKey)
  /\ pc = "idle"
  /\ req = [code |-> Undef, language |-> Undef]
  /\ reviewCalls = 0
  /\ modelCalls = 0
  /\ reply = NoReply
  /\ outcome = NoOutcome
  /\ response = NoResponse
  /\ \E env \in GhEnvs : GhQuiet(env)
  /\ served = <<>>
  /\ DemoMounted

GhNext ==
  \/ GetLogin
  \/ \E code \in {"", "code1"} : GetCallback(code)
  \/ ghPc = "token" /\ \E r \in Replies("token") : TokenExchangeSettles(r)
  \/ \E h \in AuthHeaders : GetRepos(h)
  \/ ghPc = "repos" /\ \E r \in Replies("repos") : ReposSettles(r)
  \/ ghPc = "idle" /\ \E b \in PrBodies, now \in 1..MaxClock : PostPullRequest(b, now)
  \/ ghPc = "a" /\ \E r \in Replies("a") : RefSettles(r)
  \/ ghPc = "b" /\ \E r \in Replies("b") : CreateBranchSettles(r)
  \/ ghPc = "c" /\ \E r \in Replies("c") : FileSettles(r)
  \/ ghPc = "d" /\ \E r \in Replies("d") : CommitSettles(r)
  \/ ghPc = "e" /\ \E r \in Replies("e") : PullSettles(r)

SpecGithub == GhInit /\ [][GhNext]_vars

(********************** the server: successive requests *********************)
\* Express dispatches another inbound request to its handler, which starts
\* with fresh locals; the handler followed until now may still await a
\* remote call.  The configuration read at module load stays.  `served`
\* keeps what the followed request was, what the remote answered and what
\* the handler sent.
NextRequest ==
  /\ pc # "idle" \/ ghPc # "idle"
  /\ Len(served) < MaxRequests - 1
  /\ served' = Append(served,
       [req |-> req, reply |-> reply, response |-> response, ghReq |-> ghReq,
        ghLocal |-> ghLocal, ghReplies |-> ghReplies, ghSent |-> ghSent])
  /\ pc' = "idle"
  /\ req' = [code |-> Undef, language |-> Undef]
  /\ reviewCalls' = 0
  /\ modelCalls' = 0
  /\ reply' = NoReply
  /\ outcome' = NoOutcome
  /\ response' = NoResponse
  /\ ghPc' = "idle"
  /\ ghReq' = NoGhReq
  /\ ghLocal' = NoGhLocal
  /\ ghCalls' = <<>>
  /\ ghReplies' = <<>>
  /\ ghSent' = <<>>
  /\ UNCHANGED <<apiKey, genAI, ghEnv, demoVars>>

\* the replies of Replies(step) the server specification draws from: a thrown
\* error, one refusal and one success
ServerReplies(step) ==
  LET refusal ==
        [NoReplyGh EXCEPT !.status = IF step = "token" THEN 200
                                     ELSE IF step \in {"d", "e"} THEN 422 ELSE 401]
      success ==
        CASE step = "token" -> [NoReplyGh EXCEPT !.access_token = StrValue(<<"gho_A">>)]
          [] step = "repos" -> [NoReplyGh EXCEPT !.json = "array"]
          [] step = "a" -> [NoReplyGh EXCEPT !.hasObject = TRUE, !.sha = "sha1"]
          [] step = "c" -> [NoReplyGh EXCEPT !.sha = "sha2"]
          [] step = "e" -> [NoReplyGh EXCEPT !.status = 201, !.number = 7,
                              !.html_url = "https://github.com/octo/app/pull/7"]
          [] OTHER -> [NoReplyGh EXCEPT !.status = 201]
  IN {r \in Replies(step) : r.kind = "throw" \/ r = refusal \/ r = success}

\* a server with a valid key and a complete GitHub configuration
ServerInit ==
  /\ apiKey = "valid"
  /\ genAI = MakeGenAI(apiKey)
  /\ pc = "idle"
  /\ req = [code |-> Undef, language |-> Undef]
  /\ reviewCalls = 0
  /\ modelCalls = 0
  /\ reply = NoReply
  /\ outcome = NoOutcome
  /\ response = NoResponse
  /\ GhQuiet([clientId |-> "Iv1.abc", clientSecret |-> "s3cret",
              redirectUri |-> "http://localhost:3000/api/github/callback",
              clientUrl |-> "https://app.example"])
  /\ served = <<>>
  /\ DemoMounted

\* one request is followed at a time, through the route it arrived on
ServerNext ==
  \/ ghPc = "idle" /\ \E code \in {Undef, Str(1, FALSE)} : PostReview(code, Str(6, FALSE))
  \/ pc = "awaiting" /\ GenerateContentThrows(NoMessage)
  \/ pc = "awaiting" /\ GenerateContentReturns(<<"{", "m", "}">>, WellFormedPayload)
  \/ pc = "idle" /\ GetLogin
  \/ pc = "idle" /\ \E code \in {"", "code1"} : GetCallback(code)
  \/ ghPc = "token" /\ \E r \in ServerReplies("token") : TokenExchangeSettles(r)
  \/ pc = "idle" /\ \E h \in {NoHeader, [present |-> TRUE, scheme |-> "Bearer",
                                         sep |-> TRUE, rest |-> "gho_A"]} : GetRepos(h)
  \/ ghPc = "repos" /\ \E r \in ServerReplies("repos") : ReposSettles(r)
  \/ pc = "idle" /\ ghPc = "idle"
     /\ \E b \in {x \in PrBodies : x.repo = "app" /\ ~MissingFieldsSix(x)},
           now \in 1..MaxClock : PostPullRequest(b, now)
  \/ ghPc = "a" /\ \E r \in ServerReplies("a") : RefSettles(r)
  \/ ghPc = "b" /\ \E r \in ServerReplies("b") : CreateBranchSettles(r)
  \/ ghPc = "c" /\ \E r \in ServerReplies("c") : FileSettles(r)
  \/ ghPc = "d" /\ \E r \in ServerReplies("d") : CommitSettles(r)
  \/ ghPc = "e" /\ \E r \in ServerReplies("e") : PullSettles(r)
  \/ NextRequest

SpecServer == ServerInit /\ [][ServerNext]_vars

(******************* routes/review.js over a test double ********************)
\* reviewCode is replaced by a double whose promise resolves with result;
\* isObject: result && typeof result === 'object'
DoubleReturns(result, isObject) ==
  /\ pc = "awaiting"
  /\ outcome' = Returned(result)
  /\ response' = RouteRespond(result, isObject)
  /\ pc' = "done"
  /\ UNCHANGED <<apiKey, genAI, req, reviewCalls, modelCalls, reply>>
  /\ UNCHANGED <<ghVars, served, demoVars>>

\* the double's promise rejects with msg
DoubleThrows(msg) ==
  /\ pc = "awaiting"
  /\ outcome' = Thrown(msg)
  /\ response' = RouteOnOutcome(Thrown(msg))
  /\ pc' = "done"
  /\ UNCHANGED <<apiKey, genAI, req, reviewCalls, modelCalls, reply>>
  /\ UNCHANGED <<ghVars, served, demoVars>>

\* the route awaits the double where it awaited reviewCode
DoubleNext ==
  \/ \E code \in {Undef, Str(1, FALSE), Str(MaxCodeLength, FALSE)} :
       PostReview(code, Str(6, FALSE))
  \/ pc = "awaiting" /\ \E result \in Payloads : DoubleReturns(result, TRUE)
  \/ pc = "awaiting" /\ DoubleReturns(NoResult, FALSE)
  \/ pc = "awaiting" /\ \E msg \in {NoMessage, InvalidStructureMsg} : DoubleThrows(msg)

SpecDouble == ServerInit /\ [][DoubleNext]_vars

(******************************* claims *************************************)
\* the request has been handled as far as its answer or the provider call
Handled == pc # "idle"

\* code is absent, not a string, empty or white space only
CodeMissing(code) == code.t # "string" \/ code.n = 0 \/ code.k = "blank"

\* language is absent or not a string
LanguageMissing(language) == language.t # "string"

\* code is a string of more than 10000 characters
CodeTooLong(code) == code.t = "string" /\ code.n > 10000

\* C1: a request that fails validation (code missing, non-string, empty or
\* blank; language missing or non-string; code longer than 10000 characters)
\* is answered without reviewCode, and hence the model, ever being invoked.
C1_ValidationBeforeExternalCall ==
  (Handled /\ (CodeMissing(req.code) \/ LanguageMissing(req.language)
               \/ CodeTooLong(req.code)))
    => /\ pc = "done"
       /\ response.status # 0
       /\ reviewCalls = 0
       /\ modelCalls = 0
       /\ outcome = NoOutcome

\* an over-long code with a proper language was answered without any call
C1_Witness ==
  /\ pc = "done"
  /\ req.code = Str(MaxCodeLength + 1, FALSE)
  /\ req.language = Str(6, FALSE)
  /\ apiKey = "valid"
  /\ response.status = 400
  /\ reviewCalls = 0

\* C2: a code that is absent, not a string, empty or blank is answered 400
\* {error: "Code is required and cannot be empty"}, whatever the language.
C2_EmptyCodeRejected ==
  (Handled /\ CodeMissing(req.code))
    => /\ response.status = 400
       /\ response.error.id = "Code is required and cannot be empty"
       /\ response.result = NoResult

\* a blank code sent without a language got the code message
C2_Witness ==
  /\ pc = "done"
  /\ req.code = Str(1, TRUE)
  /\ req.language = Undef
  /\ response.status = 400
  /\ response.error = CodeRequiredMsg

\* C3: a string code longer than 10000 is answered 400; a non-blank code of
\* exactly 10000 characters with a non-empty string language passes
\* validation, so reviewCode is invoked.
C3_LengthLimit ==
  /\ (Handled /\ CodeTooLong(req.code)) => response.status = 400
  /\ (Handled /\ req.code.t = "string" /\ req.code.k # "blank"
        /\ req.code.n = 10000
        /\ req.language.t = "string" /\ req.language.n > 0)
       => /\ reviewCalls = 1
          /\ response.error.id \notin {"Code is required and cannot be empty",
                                       "Language is required",
                                       "Code is too long (maximum 10,000 characters)"}

\* a code of exactly 10000 characters reached the provider call
C3_Witness ==
  /\ pc = "awaiting"
  /\ req.code = Str(10000, FALSE)
  /\ reviewCalls = 1
  /\ modelCalls = 1

\* v is an integer from 0 to 100
IsCurseLevel(v) ==
  v.t = "number" /\ v.k = "fin" /\ v.n % 2 = 0 /\ v.n >= 0 /\ v.n <= 200

\* reviewCode returned a result for a text of the provider
ReturnedForText == pc = "done" /\ reply.kind = "text" /\ outcome.kind = "return"

\* C4: every result reviewCode returns, and every 200 body, has a curseLevel
\* that is an integer in [0,100]; a provider value above 100 becomes 100, one
\* below 0 becomes 0, and a non-integer is rounded before clamping.
C4_CurseLevelClamped ==
  /\ outcome.kind = "return" => IsCurseLevel(outcome.value.curseLevel)
  /\ response.status = 200 => IsCurseLevel(response.result.curseLevel)
  /\ (ReturnedForText /\ reply.payload.curseLevel.t = "number"
        /\ reply.payload.curseLevel.k = "fin")
       => outcome.value.curseLevel =
            (IF reply.payload.curseLevel.n > 200 THEN Int2(100)
             ELSE IF reply.payload.curseLevel.n < 0 THEN Int2(0)
             ELSE Int2((reply.payload.curseLevel.n + 1) \div 2))

\* min(100, 30 * e + 10 * w) on integers
ExpectedCurse(e, w) == IF 30 * e + 10 * w > 100 THEN 100 ELSE 30 * e + 10 * w

\* C5: when the parsed response has no numeric curseLevel, the curseLevel of
\* the returned result is min(100, 30*E + 10*W), E and W being the lengths
\* of the errors and warnings lists of that same returned result.
C5_DerivedCurseLevel ==
  (ReturnedForText /\ reply.payload.curseLevel.t # "number")
    => outcome.value.curseLevel =
         Int2(ExpectedCurse(outcome.value.errors.n, outcome.value.warnings.n))

\* C6: in every returned result errors, warnings, suggestions and changes
\* are lists, empty when the provider omitted them or gave a non-list, and
\* updatedCode is present, null when the provider omitted it.
C6_ListsAndUpdatedCode ==
  ReturnedForText =>
    /\ \A f \in {"errors", "warnings", "suggestions", "changes"} :
         /\ outcome.value[f].t = "array"
         /\ reply.payload[f].t # "array" => outcome.value[f] = List(0)
         /\ reply.payload[f].t = "array" => outcome.value[f] = reply.payload[f]
    /\ outcome.value.updatedCode.t # "undefined"
    /\ reply.payload.updatedCode.t = "undefined" => outcome.value.updatedCode = Null

\* the provider gave a string for changes, nothing for errors and updatedCode
C6_Witness ==
  /\ ReturnedForText
  /\ reply.payload.changes = Str(3, FALSE)
  /\ reply.payload.errors = Undef
  /\ reply.payload.updatedCode = Undef
  /\ outcome.value.changes = List(0)
  /\ outcome.value.updatedCode = Null

\* C7: parseable JSON whose verdict is missing, empty or not a string is
\* answered 200 with the placeholder verdict; the verdict of every 200 body
\* is a non-empty string.
C7_VerdictPlaceholder ==
  /\ response.status = 200
       => response.result.verdict.t = "string" /\ response.result.verdict.n > 0
  /\ (pc = "done" /\ reply.kind = "text" /\ ParsesModelText(reply.text)
        /\ (reply.payload.verdict.t # "string" \/ reply.payload.verdict.n = 0))
       => /\ response.status = 200
          /\ response.result.verdict.k = "placeholder"
          /\ response.result.verdict.n = 46

\* the provider's JSON had an empty verdict
C7_Witness ==
  /\ pc = "done"
  /\ reply.kind = "text"
  /\ reply.payload.verdict = Str(0, TRUE)
  /\ response.status = 200
  /\ response.result.verdict = PlaceholderVerdict

\* the provider call raised an error whose message contains "quota"
QuotaRaised == pc = "done" /\ reply.kind = "error" /\ "quota" \in reply.msg.has

KeyMarkers == {"API key", "GEMINI_API_KEY", "API_KEY_NOT_VALID"}

\* C8 as stated: every provider error whose message contains "quota" is
\* answered 429 with the provider's message in the error body, whatever else
\* the message contains.
C8_QuotaAlways429 ==
  QuotaRaised => response.status = 429 /\ response.error = reply.msg

\* C8 as amended: a provider error whose message contains "quota" and no
\* API-key marker is answered 429 with reviewCode's own message (overwhelmed
\* or daily quota limit, with the provider's retry delay when positive); with
\* an API-key marker it is answered 500.
C8_QuotaWithoutKeyMarker ==
  /\ (QuotaRaised /\ reply.msg.has \cap KeyMarkers = {})
       => /\ response.status = 429
          /\ response.error.id \in {"The Reaper is overwhelmed",
                                    "The Reaper has reached its daily quota limit"}
          /\ response.error.retry = (IF reply.msg.retry > 0 THEN reply.msg.retry ELSE -1)
  /\ (QuotaRaised /\ reply.msg.has \cap KeyMarkers # {})
       => response.status = 500

\* a quota error with a retry delay was answered 429 in reviewCode's words
C8_Witness ==
  /\ QuotaRaised
  /\ reply.msg.has = {"quota"}
  /\ reply.msg.retry = 7
  /\ response.status = 429
  /\ response.error = OverwhelmedMsg(7)

\* the text holds no "{" with a "}" after it
NoBracePair(text) ==
  ~\E i, j \in 1..Len(text) : i < j /\ text[i] = "{" /\ text[j] = "}"

\* C9: when no JSON object can be isolated from or parsed out of the raw
\* text, reviewCode throws (the fallback object with curseLevel 50 is never
\* returned) and the route answers 500, never 200.
C9_UnparsableFails ==
  (pc = "done" /\ reply.kind = "text"
     /\ (NoBracePair(reply.text) \/ ~ParsesModelText(reply.text)))
    => /\ outcome.kind = "throw"
       /\ outcome.value = NoResult
       /\ response.status = 500
       /\ response.result = NoResult

\* a fenced block whose object is not closed was answered 500
C9_Witness ==
  /\ pc = "done"
  /\ reply.kind = "text"
  /\ reply.text = <<"F", "{", "m", "F">>
  /\ outcome.kind = "throw"
  /\ response.status = 500

\* C10: with the credential unset, blank or the placeholder, reviewCode
\* throws the configuration error without invoking the model and the route
\* answers 500.
C10_UnconfiguredKey ==
  (apiKey \in {"unset", "empty", "blank", "placeholder"} /\ reviewCalls > 0)
    => /\ pc = "done"
       /\ modelCalls = 0
       /\ outcome.kind = "throw"
       /\ outcome.error.id = "API key not configured"
       /\ response.status = 500

\* a valid request met a blank key
C10_Witness ==
  /\ apiKey = "blank"
  /\ genAI
  /\ reviewCalls = 1
  /\ modelCalls = 0
  /\ response.status = 500

(*********************** claims on routes/github.js *************************)
\* GET /callback has responded
CallbackDone == ghReq.route = "callback" /\ ghPc = "done"

\* the tokens the provider hands out
IssuedTokens == {"gho_A", "gho_B", "42"}

\* C11: an execution of GET /callback that responds sends exactly one
\* response, a redirect to the front-end origin with no query and a fragment
\* that begins with token= or error=, and no JSON body; before it responds it
\* has sent nothing.
C11_CallbackAlwaysRedirects ==
  ghReq.route = "callback" =>
    IF ghPc = "done"
    THEN /\ Len(ghSent) = 1
         /\ ghSent[1].kind = "redirect"
         /\ ghSent[1].body = NoBody
         /\ ghSent[1].url.base = (IF ghEnv.clientUrl = "" THEN "http://localhost:5173"
                                                          ELSE ghEnv.clientUrl)
         /\ ghSent[1].url.query = <<>>
         /\ Len(ghSent[1].url.fragment) > 2
         /\ ghSent[1].url.fragment[1] \in {"token", "error"}
         /\ ghSent[1].url.fragment[2] = "="
    ELSE ghSent = <<>>

\* the callback has folded an exception (a payload that is no JSON object, or
\* a thrown network error) into an error redirect
C11_Witness ==
  /\ CallbackDone
  /\ Len(ghReplies) = 1
  /\ ghReplies[1].kind = "throw"
  /\ Len(ghSent) = 1
  /\ ghSent[1].kind = "redirect"
  /\ ghSent[1].url.fragment[1] = "error"

\* C12: GET /callback calls the token endpoint only with a code and with both
\* OAuth credentials set; without a code it redirects with the fragment
\* error=Missing%20authorization%20code%20from%20GitHub, and with a code but a
\* credential unset it redirects with the configuration-error fragment, in
\* both cases without a remote call.
C12_GuardsBeforeExchange ==
  ghReq.route = "callback" =>
    /\ (ghCalls # <<>>) =>
         (ghReq.code # "" /\ ghEnv.clientId # "" /\ ghEnv.clientSecret # "")
    /\ \A i \in 1..Len(ghCalls) :
         /\ ghCalls[i].step = "token"
         /\ ghCalls[i].code = ghReq.code
         /\ ghCalls[i].clientId = ghEnv.clientId
         /\ ghCalls[i].clientSecret = ghEnv.clientSecret
    /\ ghReq.code = "" =>
         /\ ghPc = "done" /\ ghCalls = <<>> /\ Len(ghSent) = 1
         /\ ghSent[1].url.fragment =
              <<"error", "=", "Missing", "%20", "authorization", "%20", "code", "%20",
                "from", "%20", "GitHub">>
    /\ (ghReq.code # "" /\ (ghEnv.clientId = "" \/ ghEnv.clientSecret = "")) =>
         /\ ghPc = "done" /\ ghCalls = <<>> /\ Len(ghSent) = 1
         /\ SubSeq(ghSent[1].url.fragment, 1, 9) =
              <<"error", "=", "GitHub", "%20", "OAuth", "%20", "not", "%20", "configured.">>
         /\ TextIncludes(ghSent[1].url.fragment, "GITHUB_CLIENT_ID")
         /\ TextIncludes(ghSent[1].url.fragment, "GITHUB_CLIENT_SECRET")

\* a callback with a code, refused because the client secret is unset
C12_Witness ==
  /\ CallbackDone
  /\ ghReq.code # ""
  /\ ghEnv.clientId # ""
  /\ ghEnv.clientSecret = ""
  /\ ghCalls = <<>>
  /\ Len(ghSent) = 1

\* C13: the redirect of GET /callback carries an access token only after a
\* token exchange that returned a success status and a JSON object with a
\* truthy access_token; the fragment is then exactly token=<that token>, and
\* no redirect has the token in its query or in an error fragment.
C13_TokenOnlyInFragment ==
  (CallbackDone /\ Len(ghSent) = 1) =>
    LET url == ghSent[1].url
    IN /\ url.query = <<>>
       /\ (url.fragment # <<>> /\ url.fragment[1] = "token") =>
            /\ Len(ghReplies) = 1
            /\ ghReplies[1].kind = "response"
            /\ ghReplies[1].status >= 200 /\ ghReplies[1].status <= 299
            /\ ghReplies[1].json = "object"
            /\ ghReplies[1].access_token.t # "undefined"
            /\ ghReplies[1].access_token.text # <<>>
            /\ url.fragment = <<"token", "=">> \o ghReplies[1].access_token.text
       /\ (url.fragment # <<>> /\ url.fragment[1] # "token") =>
            \A tok \in IssuedTokens : ~TextIncludes(url.fragment, tok)

\* a callback that redirected with the token it received
C13_Witness ==
  /\ CallbackDone
  /\ Len(ghSent) = 1
  /\ Len(ghReplies) = 1
  /\ ghReplies[1].access_token = StrValue(<<"gho_B">>)
  /\ ghSent[1].url.fragment = <<"token", "=", "gho_B">>

\* error_description || error || 'No access token received'
DescriptionOf(r) ==
  IF r.error_description.t # "undefined" /\ r.error_description.text # <<>>
  THEN r.error_description
  ELSE IF r.error.t # "undefined" /\ r.error.text # <<>> THEN r.error
  ELSE [t |-> "string", text |-> CallbackText("no_token")]

\* the fragment of a failure classified by its description
ClassifiedFragment(text) ==
  <<"error", "=">> \o EncodeURIComponent(
    IF TextIncludes(text, "client_id") \/ TextIncludes(text, "client_secret")
    THEN CallbackText("client_credential")
    ELSE IF TextIncludes(text, "redirect_uri") THEN CallbackText("redirect_mismatch")
    ELSE OAuthFailedPrefix \o text)

\* the token exchange came back with a response that is a failure
ExchangeFailedByStatus ==
  /\ CallbackDone /\ Len(ghReplies) = 1 /\ Len(ghSent) = 1
  /\ ghReplies[1].kind = "response"
  /\ ~(ghReplies[1].status >= 200 /\ ghReplies[1].status <= 299)

ExchangeFailedByPayload ==
  /\ CallbackDone /\ Len(ghReplies) = 1 /\ Len(ghSent) = 1
  /\ ghReplies[1].kind = "response"
  /\ ghReplies[1].status >= 200 /\ ghReplies[1].status <= 299
  /\ ghReplies[1].json = "object"
  /\ \/ ghReplies[1].access_token.t = "undefined"
     \/ ghReplies[1].access_token.text = <<>>
     \/ (ghReplies[1].error.t # "undefined" /\ ghReplies[1].error.text # <<>>)

LoginDone == ghReq.route = "login" /\ ghPc = "done"

\* C15: GET /login answers 500 with a JSON configuration error when the
\* client id or the redirect URI is unset, and otherwise redirects to the
\* authorization URL with client_id, redirect_uri, scope=repo and
\* allow_signup=true, both non-empty; it makes no remote call.
C15_LoginConfigured ==
  LoginDone =>
    /\ Len(ghSent) = 1
    /\ ghCalls = <<>>
    /\ IF ghEnv.clientId = "" \/ ghEnv.redirectUri = ""
       THEN /\ ghSent[1].kind = "json"
            /\ ghSent[1].status = 500
            /\ ghSent[1].body.error = "GitHub OAuth not configured"
       ELSE /\ ghSent[1].kind = "redirect"
            /\ ghSent[1].url.base = "https://github.com/login/oauth/authorize"
            /\ ghSent[1].url.fragment = <<>>
            /\ ghSent[1].url.query =
                 << <<"client_id", ghEnv.clientId>>, <<"redirect_uri", ghEnv.redirectUri>>,
                    <<"scope", "repo">>, <<"allow_signup", "true">> >>
    /\ ghSent[1].kind = "redirect" =>
         \A i \in 1..Len(ghSent[1].url.query) : ghSent[1].url.query[i][2] # ""

\* a login refused although the client id is set: the redirect URI is unset
C15_Witness ==
  /\ LoginDone
  /\ ghEnv.clientId # ""
  /\ ghEnv.redirectUri = ""
  /\ Len(ghSent) = 1
  /\ ghSent[1].status = 500

\* GET /repos has responded
ReposDone == ghReq.route = "repos" /\ ghPc = "done"

\* the header that arrived is a Bearer header: 'Bearer ', then the token
IsBearerHeader(h) == h.present /\ h.scheme = "Bearer" /\ h.sep

\* the reply of the repositories endpoint is a list the handler can format
ReposPayloadExpected(r) ==
  /\ r.kind = "response" /\ r.status >= 200 /\ r.status <= 299
  /\ r.json = "array"
  /\ \A i \in 1..Len(r.items) : r.items[i].hasOwner

\* C16: GET /repos answers 401 {error: "Missing access token"} with no
\* upstream call when the Authorization header is absent or is no Bearer
\* header; otherwise it makes one upstream call with the token of the header
\* and answers 401 to an upstream 401, 500 {error: "Failed to fetch
\* repositories"} to every other upstream failure (thrown error, other
\* non-success status, body that is no JSON, payload that is no list of
\* repositories with an owner), and 200 with the formatted list otherwise.
C16_ReposErrors ==
  ghReq.route = "repos" =>
    IF ~IsBearerHeader(ghReq.auth)
    THEN /\ ghPc = "done" /\ ghCalls = <<>> /\ Len(ghSent) = 1
         /\ ghSent[1].kind = "json" /\ ghSent[1].status = 401
         /\ ghSent[1].body.error = "Missing access token"
    ELSE /\ Len(ghCalls) = 1
         /\ ghCalls[1].step = "repos" /\ ghCalls[1].method = "GET"
         /\ ghCalls[1].token = ghReq.auth.rest
         /\ IF ghPc # "done" THEN ghSent = <<>> /\ ghReplies = <<>>
            ELSE /\ Len(ghSent) = 1 /\ Len(ghReplies) = 1
                 /\ ghSent[1].kind = "json"
                 /\ IF ghReplies[1].kind = "response" /\ ghReplies[1].status = 401
                    THEN /\ ghSent[1].status = 401
                         /\ ghSent[1].body.error = "Invalid or expired token"
                    ELSE IF ~ReposPayloadExpected(ghReplies[1])
                    THEN /\ ghSent[1].status = 500
                         /\ ghSent[1].body.error = "Failed to fetch repositories"
                    ELSE /\ ghSent[1].status = 200
                         /\ Len(ghSent[1].body.data) = Len(ghReplies[1].items)
                         /\ \A i \in 1..Len(ghReplies[1].items) :
                              /\ ghSent[1].body.data[i].owner = ghReplies[1].items[i].login
                              /\ ghSent[1].body.data[i].url = ghReplies[1].items[i].html_url

\* a success response whose list holds a repository without owner, answered 500
C16_Witness ==
  /\ ReposDone
  /\ Len(ghReplies) = 1
  /\ ghReplies[1].kind = "response" /\ ghReplies[1].status = 200
  /\ ghReplies[1].json = "array"
  /\ \E i \in 1..Len(ghReplies[1].items) : ~ghReplies[1].items[i].hasOwner
  /\ Len(ghSent) = 1
  /\ ghSent[1].status = 500

\* POST /pull-request is running or has responded
InPullRequest == ghReq.route = "pull-request"

\* the reply is a response with a success status
ReplyOk(r) == r.kind = "response" /\ r.status >= 200 /\ r.status <= 299

\* the steps in the order of the handler, and their methods
StepOrder == <<"a", "b", "c", "d", "e">>
StepMethod == <<"GET", "POST", "GET", "PUT", "POST">>

\* C17: the remote calls of POST /pull-request are, in this order, (a) GET
\* the ref of main, (b) POST the new ref, (c) GET the file, (d) PUT the file,
\* (e) POST the pull request; a step is issued only after every earlier step
\* came back with a success status; (b) carries the SHA read by (a), (d) the
\* blob SHA read by (c) and the branch created by (b), (e) that branch as head.
C17_StepsInOrder ==
  InPullRequest =>
    /\ Len(ghCalls) <= 5
    /\ Len(ghCalls) <= Len(ghReplies) + 1
    /\ \A i \in 1..Len(ghCalls) :
         /\ ghCalls[i].step = StepOrder[i]
         /\ ghCalls[i].method = StepMethod[i]
         /\ \A j \in 1..(i - 1) : ReplyOk(ghReplies[j])
    /\ Len(ghCalls) >= 2 =>
         /\ ghCalls[2].sha = ghReplies[1].sha
         /\ ghCalls[2].ref = [prefix |-> "aireviewmate-update-", stamp |-> ghReq.now]
    /\ Len(ghCalls) >= 4 =>
         /\ ghCalls[4].sha = ghReplies[3].sha
         /\ ghCalls[4].branch = ghCalls[2].ref
    /\ Len(ghCalls) >= 5 =>
         /\ ghCalls[5].head = ghCalls[2].ref
         /\ ghCalls[5].base = "main"

\* all five steps were issued, with different SHAs read by (a) and by (c)
C17_Witness ==
  /\ InPullRequest
  /\ ghPc = "done"
  /\ Len(ghCalls) = 5
  /\ ghReplies[1].sha = "sha1"
  /\ ghReplies[3].sha = "sha2"
  /\ ghCalls[4].sha = "sha2"

\* C18: a 409 to the branch-create step is answered 409 {error: "Branch
\* conflict", message} and is the end of the handler: the file read, the
\* commit and the pull-request creation are not issued.
C18_BranchConflict ==
  (InPullRequest /\ Len(ghReplies) >= 2
     /\ ghReplies[2].kind = "response" /\ ghReplies[2].status = 409) =>
    /\ ghPc = "done"
    /\ Len(ghReplies) = 2
    /\ Len(ghCalls) = 2
    /\ \A i \in 1..Len(ghCalls) : ghCalls[i].step \in {"a", "b"}
    /\ Len(ghSent) = 1
    /\ ghSent[1].kind = "json" /\ ghSent[1].status = 409
    /\ ghSent[1].body.error = "Branch conflict"
    /\ ghSent[1].body.message.text # ""

\* the branch-create step got a 409 and the handler has answered 409
C18_Witness ==
  /\ InPullRequest
  /\ ghPc = "done"
  /\ Len(ghReplies) = 2
  /\ ghReplies[2].status = 409
  /\ Len(ghSent) = 1
  /\ ghSent[1].status = 409

\* the handler has ended at the step whose reply is the last one, and not
\* with the success response, the 401 of step (a) or the 409 of step (b)
StepFailed ==
  /\ InPullRequest /\ ghPc = "done" /\ ghReplies # <<>> /\ Len(ghSent) = 1
  /\ ~ghSent[1].body.success
  /\ ~(Len(ghReplies) = 1 /\ ghReplies[1].kind = "response" /\ ghReplies[1].status = 401)
  /\ ~(Len(ghReplies) = 2 /\ ghReplies[2].kind = "response" /\ ghReplies[2].status = 409)

\* the last reply, the one of the failing step
LastReply == ghReplies[Len(ghReplies)]

\* the words the thrown Error names each step with
StepName ==
  <<"Failed to fetch main branch: ", "Failed to create branch: ",
    "Failed to fetch file: ", "Failed to commit code: ", "Failed to create PR: ">>

\* the 401 of step (a) is answered 401 as an expired token
ExpiredTokenAtRef ==
  (InPullRequest /\ Len(ghReplies) >= 1
     /\ ghReplies[1].kind = "response" /\ ghReplies[1].status = 401) =>
    /\ ghPc = "done" /\ Len(ghReplies) = 1 /\ Len(ghCalls) = 1 /\ Len(ghSent) = 1
    /\ ghSent[1].status = 401
    /\ ghSent[1].body.error = "Invalid or expired token"

\* C19 as stated: every failure of a step, a thrown network error and a
\* malformed payload included, is answered 500 with a message that names the
\* failing step and the upstream status code.
C19_MessageNamesStepAndStatus ==
  /\ ExpiredTokenAtRef
  /\ StepFailed =>
       /\ ghSent[1].status = 500
       /\ Len(ghCalls) = Len(ghReplies)
       /\ ghSent[1].body.message.text = StepName[Len(ghReplies)]
       /\ LastReply.kind = "response"
       /\ ghSent[1].body.message.status = LastReply.status

\* C19: every failure of a step other than the 401 of (a) and the 409 of (b)
\* ends the handler with 500 {error: "Failed to create pull request"} and no
\* further call.  The message names the failing step and the upstream status
\* when the step came back with a non-success status (at step (e) unless the
\* error body is the JSON null); for a thrown network error, a body that is
\* no JSON or a payload without the expected object it is the message of that
\* exception, with no step and no status.  A 401 at (a) is answered 401.
C19_StepFailureIs500 ==
  /\ ExpiredTokenAtRef
  /\ StepFailed =>
       /\ ghSent[1].kind = "json"
       /\ ghSent[1].status = 500
       /\ ghSent[1].body.error = "Failed to create pull request"
       /\ Len(ghCalls) = Len(ghReplies)
       /\ IF LastReply.kind = "response" /\ ~ReplyOk(LastReply)
             /\ ~(Len(ghReplies) = 5 /\ LastReply.json = "null")
          THEN /\ ghSent[1].body.message.text = StepName[Len(ghReplies)]
               /\ ghSent[1].body.message.status = LastReply.status
          ELSE /\ ghSent[1].body.message.text = ""
               /\ ghSent[1].body.message.status = 0
               /\ ghSent[1].body.message.detail # <<>>

\* the file read came back 404: 500 with 'Failed to fetch file: 404'
C19_Witness ==
  /\ StepFailed
  /\ Len(ghReplies) = 3
  /\ LastReply.kind = "response" /\ LastReply.status = 404
  /\ ghSent[1].status = 500
  /\ ghSent[1].body.message.text = "Failed to fetch file: "
  /\ ghSent[1].body.message.status = 404

\* the branch-create step succeeded and a later step failed
OrphanBranch ==
  /\ StepFailed
  /\ Len(ghReplies) >= 3
  /\ ReplyOk(ghReplies[2])

\* C20: POST /pull-request makes no call but the five steps, and once the
\* branch is created a failure of the file read, the commit or the
\* pull-request creation is answered with an error and no further remote
\* call; the handler has ended there, with the branch left behind.
C20_NoCompensation ==
  InPullRequest =>
    /\ \A i \in 1..Len(ghCalls) :
         ghCalls[i].step \in {"a", "b", "c", "d", "e"} /\ ghCalls[i].method # "DELETE"
    /\ OrphanBranch =>
         /\ Len(ghCalls) = Len(ghReplies)
         /\ ghCalls[Len(ghCalls)].step \in {"c", "d", "e"}
         /\ ghSent[1].status >= 400
         /\ ~ENABLED GhNext

\* the branch was created, the commit was refused: error response, no
\* pull request, no call after the commit
C20_Witness ==
  /\ OrphanBranch
  /\ Len(ghReplies) = 4
  /\ ghReplies[4].kind = "response" /\ ghReplies[4].status = 422
  /\ Len(ghCalls) = 4
  /\ ghSent[1].status = 500

\* the seven fields the handler requires of the body
RequiredFields ==
  {"accessToken", "owner", "repo", "filePath", "improvedCode", "category", "explanation"}

\* C21: POST /pull-request answers a body in which any of accessToken, owner,
\* repo, filePath, improvedCode, category, explanation is absent or empty
\* with 400 {error: 'Missing required fields'}, and makes no remote call.
C21_MissingFieldsRefused ==
  (InPullRequest /\ \E f \in RequiredFields : ghReq.body[f] = "") =>
    /\ ghPc = "done"
    /\ ghCalls = <<>>
    /\ ghReplies = <<>>
    /\ Len(ghSent) = 1
    /\ ghSent[1].kind = "json"
    /\ ghSent[1].status = 400
    /\ ghSent[1].body = [NoBody EXCEPT !.error = "Missing required fields"]

\* only the explanation is empty: 400 and no remote call
C21_Witness ==
  /\ InPullRequest
  /\ ghReq.body.explanation = ""
  /\ \A f \in RequiredFields \ {"explanation"} : ghReq.body[f] # ""
  /\ ghSent # <<>> /\ ghSent[1].status = 400
  /\ ghCalls = <<>>

\* C28: POST /pull-request sends {success: true, url, number, branch} only
\* after each of the five steps came back with a success status; the branch
\* of the response is the branch created by (b), committed to by (d) and
\* given as head by (e); every response of the handler has status 200, 400,
\* 401, 409 or 500.
C28_SuccessAfterFiveSteps ==
  InPullRequest =>
    /\ Len(ghSent) <= 1
    /\ \A i \in 1..Len(ghSent) :
         /\ ghSent[i].kind = "json"
         /\ ghSent[i].status \in {200, 400, 401, 409, 500}
         /\ ghSent[i].body.success <=> ghSent[i].status = 200
         /\ ghSent[i].body.success =>
              /\ Len(ghCalls) = 5 /\ Len(ghReplies) = 5
              /\ \A j \in 1..5 : ReplyOk(ghReplies[j])
              /\ Len(ghSent[i].body.data) = 1
              /\ ghSent[i].body.data[1].branch = ghCalls[2].ref
              /\ ghSent[i].body.data[1].branch = ghCalls[4].branch
              /\ ghSent[i].body.data[1].branch = ghCalls[5].head
              /\ ghSent[i].body.data[1].url = ghReplies[5].html_url
              /\ ghSent[i].body.data[1].number = ghReplies[5].number

\* the pull request was opened: the success response names the new branch
C28_Witness ==
  /\ InPullRequest
  /\ ghSent # <<>> /\ ghSent[1].body.success
  /\ ghSent[1].body.data[1].branch = [prefix |-> "aireviewmate-update-", stamp |-> ghReq.now]
  /\ ghSent[1].body.data[1].number = 7

\* the default branch of a repository on the remote: "app" has main, "lib"
\* has develop, as the repositories endpoint lists them
DefaultBranchOf(repo) == IF repo = "lib" THEN "develop" ELSE "main"

\* the path of the ref of a branch
RefPath(branch) ==
  IF branch = "main" THEN "/repos/{owner}/{repo}/git/refs/heads/main"
  ELSE "/repos/{owner}/{repo}/git/refs/heads/develop"

\* C22: for every target repository, step (a) of POST /pull-request reads the
\* head of that repository's default branch and step (e) opens the pull
\* request against the same default branch, whatever it is named.
C22_TargetsDefaultBranch ==
  InPullRequest =>
    \A i \in 1..Len(ghCalls) :
      /\ ghCalls[i].step = "a" => ghCalls[i].url = RefPath(DefaultBranchOf(ghCalls[i].repo))
      /\ ghCalls[i].step = "e" => ghCalls[i].base = DefaultBranchOf(ghCalls[i].repo)

(********************** components/Demo.tsx: handlers ***********************)
\* A code text is a sequence of tokens; <<>> is a text that is empty after
\* trim().

\* result.updatedCode of a review of code, when the review carries one
UpdatedCodeOf(code) ==
  IF code # <<>> /\ code[1] = "improved" THEN code ELSE <<"improved">> \o code

\* a re-render: the handlers now close over the current state
Render ==
  /\ rendered # Closure(demo)
  /\ rendered' = Closure(demo)
  /\ UNCHANGED <<demo, isRequestInProgressRef, progressIntervals, pending, timers>>
  /\ UNCHANGED <<reviewVars, ghVars, served>>

\* onChange of the Textarea
EditCode(text) ==
  /\ demo' = [demo EXCEPT !.code = text, !.improvedCode = <<>>, !.codeAccepted = FALSE,
                          !.showResponse = FALSE, !.reviewData = <<>>]
  /\ UNCHANGED <<rendered, isRequestInProgressRef, progressIntervals, pending, timers>>
  /\ UNCHANGED <<reviewVars, ghVars, served>>

\* handleLanguageChange
LanguageChange(language) ==
  /\ demo' = [demo EXCEPT !.selectedLanguage = language, !.code = TemplateOf(language),
                          !.showResponse = FALSE, !.reviewData = <<>>, !.error = ""]
  /\ UNCHANGED <<rendered, isRequestInProgressRef, progressIntervals, pending, timers>>
  /\ UNCHANGED <<reviewVars, ghVars, served>>

\* variant: summonReaper without the test of the ref
SummonReaperStateOnly ==
  /\ rendered.code # <<>>
  /\ ~rendered.isAnalyzing
  /\ Len(pending) < MaxInFlight
  /\ isRequestInProgressRef' = TRUE
  /\ demo' = [demo EXCEPT !.isAnalyzing = TRUE, !.showResponse = FALSE,
                          !.reviewData = <<>>, !.error = ""]
  /\ progressIntervals' = progressIntervals + 1
  /\ pending' = Append(pending, [code |-> rendered.code,
                                 language |-> rendered.selectedLanguage])
  /\ UNCHANGED <<rendered, timers>>
  /\ UNCHANGED <<reviewVars, ghVars, served>>

\* summonReaper, from the click of the summon button or from Ctrl+Shift+R
\* (which clicks the button), up to its await of reviewCode: the three
\* guards on the values of the last render and on the ref, then the flag,
\* the state resets, the progress interval and the request
SummonReaper ==
  /\ rendered.code # <<>>
  /\ ~rendered.isAnalyzing
  /\ ~isRequestInProgressRef
  /\ Len(pending) < MaxInFlight
  /\ isRequestInProgressRef' = TRUE
  /\ demo' = [demo EXCEPT !.isAnalyzing = TRUE, !.showResponse = FALSE,
                          !.reviewData = <<>>, !.error = ""]
  /\ progressIntervals' = progressIntervals + 1
  /\ pending' = Append(pending, [code |-> rendered.code,
                                 language |-> rendered.selectedLanguage])
  /\ UNCHANGED <<rendered, timers>>
  /\ UNCHANGED <<reviewVars, ghVars, served>>

\* pending without its i-th request
Settle(i) == SubSeq(pending, 1, i - 1) \o SubSeq(pending, i + 1, Len(pending))

\* reviewCode resolves with a result object: the try block after the await.
\* forCode and forLanguage record the request the result answers.
ReviewResolves(i, withUpdate) ==
  /\ i \in 1..Len(pending)
  /\ LET result ==
           [forCode |-> pending[i].code, forLanguage |-> pending[i].language,
            updatedCode |-> IF withUpdate THEN << UpdatedCodeOf(pending[i].code) >>
                            ELSE <<>>]
     IN demo' = [demo EXCEPT !.reviewData = << result >>,
                             !.improvedCode = result.updatedCode,
                             !.codeAccepted = FALSE]
  /\ progressIntervals' = progressIntervals - 1
  /\ timers' = timers + 1
  /\ pending' = Settle(i)
  /\ UNCHANGED <<rendered, isRequestInProgressRef>>
  /\ UNCHANGED <<reviewVars, ghVars, served>>

\* variant: the catch block leaves the ref set
ReviewRejectsKeepsGuard(i, message) ==
  /\ i \in 1..Len(pending)
  /\ demo' = [demo EXCEPT !.error = message, !.isAnalyzing = FALSE,
                          !.showResponse = TRUE]
  /\ progressIntervals' = progressIntervals - 1
  /\ pending' = Settle(i)
  /\ UNCHANGED <<rendered, timers, isRequestInProgressRef>>
  /\ UNCHANGED <<reviewVars, ghVars, served>>

\* reviewCode rejects, or resolves with null so that reading
\* result.curseLevel throws: the catch block
ReviewRejects(i, message) ==
  /\ i \in 1..Len(pending)
  /\ demo' = [demo EXCEPT !.error = message, !.isAnalyzing = FALSE,
                          !.showResponse = TRUE]
  /\ isRequestInProgressRef' = FALSE
  /\ progressIntervals' = progressIntervals - 1
  /\ pending' = Settle(i)
  /\ UNCHANGED <<rendered, timers>>
  /\ UNCHANGED <<reviewVars, ghVars, served>>

\* the 300 ms timer of the try block fires
CompletionTimerFires ==
  /\ timers > 0
  /\ timers' = timers - 1
  /\ demo' = [demo EXCEPT !.isAnalyzing = FALSE, !.showResponse = TRUE]
  /\ isRequestInProgressRef' = FALSE
  /\ UNCHANGED <<rendered, progressIntervals, pending>>
  /\ UNCHANGED <<reviewVars, ghVars, served>>

\* handleAcceptCode
AcceptCode ==
  /\ rendered.improvedCode # <<>>
  /\ demo' = [demo EXCEPT !.code = rendered.improvedCode[1], !.codeAccepted = TRUE]
  /\ UNCHANGED <<rendered, isRequestInProgressRef, progressIntervals, pending, timers>>
  /\ UNCHANGED <<reviewVars, ghVars, served>>

\* handleDiscardCode
DiscardCode ==
  /\ demo' = [demo EXCEPT !.improvedCode = <<>>, !.codeAccepted = FALSE]
  /\ UNCHANGED <<rendered, isRequestInProgressRef, progressIntervals, pending, timers>>
  /\ UNCHANGED <<reviewVars, ghVars, served>>

ClientNext ==
  \/ Render
  \/ \E text \in {<<>>, <<"a">>} : EditCode(text)
  \/ \E language \in {"javascript", "python"} : LanguageChange(language)
  \/ SummonReaper
  \/ \E i \in 1..Len(pending), withUpdate \in BOOLEAN : ReviewResolves(i, withUpdate)
  \/ \E i \in 1..Len(pending),
          message \in {"Failed to review code",
                       "Cannot read properties of null (reading 'curseLevel')"} :
       ReviewRejects(i, message)
  \/ CompletionTimerFires
  \/ AcceptCode
  \/ DiscardCode

\* the component in the browser, the server as loaded
SpecClient == ServerInit /\ [][ClientNext]_vars

\* the browser runs a timer that is due
SpecClientFair == SpecClient /\ WF_vars(CompletionTimerFires)

(************************ claims on the whole server ************************)
\* C23: within one inbound request the provider call of reviewCode, the token
\* exchange, the repository listing and each of the five pull-request steps
\* is issued at most once, whatever the call came back with; a call is
\* issued only after the one before it has settled.
C23_NoRetries ==
  /\ reviewCalls <= 1
  /\ modelCalls <= reviewCalls
  /\ \A i, j \in 1..Len(ghCalls) : i # j => ghCalls[i].step # ghCalls[j].step
  /\ Len(ghReplies) <= Len(ghCalls)
  /\ Len(ghCalls) <= Len(ghReplies) + 1
  /\ ghPc = "done" => Len(ghReplies) = Len(ghCalls)

\* after a review whose provider call threw, a pull-request request whose
\* first step threw: one call each, and the error response
C23_Witness ==
  /\ Len(served) = 1
  /\ served[1].reply.kind = "error"
  /\ served[1].response.status >= 400
  /\ InPullRequest /\ ghPc = "done"
  /\ Len(ghCalls) = 1 /\ ghReplies[1].kind = "throw"
  /\ ghSent[1].status = 500

\* the earlier requests that sent a response to the same request and the
\* same replies as the one followed now
SameAsServed(e) ==
  \/ /\ e.ghSent # <<>> /\ ghSent # <<>>
     /\ e.ghReq = ghReq /\ e.ghReplies = ghReplies
  \/ /\ e.response # NoResponse /\ response # NoResponse
     /\ e.req = req /\ e.reply = reply

\* no step writes the configuration read at module load
ConfigurationKept == apiKey' = apiKey /\ genAI' = genAI /\ ghEnv' = ghEnv

\* C26: no handler writes state that outlives its request: no step of any
\* handler changes the configuration read at startup (the token of a
\* callback, of repos or of pull-request goes into the calls and the
\* response of its request only), and a request answered after an earlier
\* one with the same content and the same upstream replies gets the same
\* response.
C26_NoStateOutlivesRequest ==
  /\ [][ConfigurationKept]_vars
  /\ [](\A i \in 1..Len(served) :
          SameAsServed(served[i]) =>
            /\ served[i].ghSent = ghSent
            /\ served[i].response = response)

\* a second callback after one that was issued a token: the same exchange,
\* the same redirect, the configuration as loaded
C26_Witness ==
  /\ Len(served) = 1
  /\ served[1].ghReq.route = "callback"
  /\ Len(served[1].ghReplies) = 1
  /\ ValueTruthy(served[1].ghReplies[1].access_token)
  /\ SameAsServed(served[1])
  /\ ghCalls[1].clientSecret = "s3cret"
  /\ ghSent = served[1].ghSent
  /\ ghEnv.clientUrl = "https://app.example"

\* the branch names of the validated pull-request requests so far
BranchNamesUsed ==
  [i \in 1..(Len(served) + 1) |->
     IF i <= Len(served) THEN served[i].ghLocal.branchName ELSE ghLocal.branchName]

\* C27: every pull-request request that passes validation uses a branch name
\* aireviewmate-update-<ms> of its own: no two requests use the same name.
C27_BranchNamesUnique ==
  \A i, j \in 1..Len(BranchNamesUsed) :
    (i # j /\ BranchNamesUsed[i] # NoBranch) => BranchNamesUsed[i] # BranchNamesUsed[j]

\* a 200 body of POST /api/review has the client's post-conditions
BodyPostConditions(result) ==
  /\ IsArray(result.errors) /\ IsArray(result.warnings)
  /\ IsArray(result.suggestions) /\ IsArray(result.changes)
  /\ result.updatedCode # Undef
  /\ result.curseLevel.t = "number" /\ result.curseLevel.k = "fin"
  /\ result.curseLevel.n >= 0 /\ result.curseLevel.n <= 200

\* C25: whatever object the AI review client (or a test double in its place)
\* returns, the 200 body of POST /api/review has lists in errors, warnings,
\* suggestions and changes, an updatedCode, and a curseLevel that is a number
\* in [0,100].
C25_RouteReNormalizes ==
  (pc = "done" /\ response.status = 200) => BodyPostConditions(response.result)

(*********************** claims on components/Demo.tsx **********************)
\* C24: at any time at most one review request of the component is in
\* flight, under every interleaving of clicks, Ctrl+Shift+R, re-renders and
\* arrivals of responses; while one is in flight the ref is set.
C24_OneRequestInFlight ==
  /\ Len(pending) <= 1
  /\ pending # <<>> => isRequestInProgressRef
  /\ progressIntervals = Len(pending)
  /\ timers <= 1
  /\ timers = 1 => pending = <<>> /\ isRequestInProgressRef

\* a request is in flight and the handlers still close over the render from
\* before it: a click now passes the isAnalyzing test and is stopped by the ref
C24_Witness ==
  /\ Len(pending) = 1
  /\ rendered.code # <<>>
  /\ ~rendered.isAnalyzing
  /\ demo.isAnalyzing
  /\ isRequestInProgressRef
  /\ ~ENABLED SummonReaper

\* the result was produced for what the editor holds: the same language and
\* the same text, or the text is that result's updatedCode, accepted
ProducedForEditor(result) ==
  /\ result.forLanguage = demo.selectedLanguage
  /\ \/ result.forCode = demo.code
     \/ demo.codeAccepted /\ << demo.code >> = result.updatedCode

\* C29: whenever reviewData or improvedCode is held in state, it was produced
\* for the code text and the language the editor holds now; editing the code
\* or changing the language at any time, also while a request is in flight,
\* never leaves a result of earlier code stored or displayed.
C29_ResultsMatchEditor ==
  /\ demo.reviewData # <<>> => ProducedForEditor(demo.reviewData[1])
  /\ demo.improvedCode # <<>> =>
       \/ demo.improvedCode[1] = UpdatedCodeOf(demo.code)
       \/ demo.codeAccepted /\ demo.improvedCode[1] = demo.code

\* no request is unsettled and no completion timer is due
DemoQuiet == pending = <<>> /\ timers = 0

\* the guard is cleared and the progress animation is stopped
GuardCleared ==
  ~isRequestInProgressRef /\ ~demo.isAnalyzing /\ progressIntervals = 0

\* C30: after every review request that settles, with a result or with an
\* error, isRequestInProgressRef and isAnalyzing are eventually cleared and
\* the progress interval is stopped: the interval stops when the request
\* settles, and the guard is never left set once the request has settled and
\* its timer has fired.
C30_GuardEventuallyCleared ==
  /\ [](pending = <<>> => progressIntervals = 0)
  /\ [](DemoQuiet => GuardCleared)
  /\ ((isRequestInProgressRef /\ pending = <<>>) ~> GuardCleared)

\* a second request is in flight after a first one that settled with a
\* result carrying updated code
C30_Witness ==
  /\ Len(pending) = 1
  /\ demo.improvedCode # <<>>
  /\ demo.reviewData = <<>>
  /\ isRequestInProgressRef
  /\ timers = 0

====
